---- MODULE Spec2Model ----
(***************************************************************************)
(* Neon Velocity: the aggressive AI racers (ai.js, class AICar) and the    *)
(* AI pass of the orchestrator (game.js, Game._update).                    *)
(*                                                                         *)
(* Numbers are fixed point.  Lengths are in 1/100 px, times in ms, speeds  *)
(* in px/s, velocity multipliers in 1/10000, aggression in 1/100, speedT   *)
(* in 1/1000.  A product that does not fall on the grid is floored.        *)
(* Lanes are 0..2 as in the source; LANE_CENTERS is indexed lane + 1.      *)
(***************************************************************************)
EXTENDS Integers, Sequences, FiniteSets, TLC

VARIABLES
    aiCars,   \* the roster of AICar objects (Game.aiCars), a sequence of records
    ev,       \* per agent: what the last operation on it did (branches taken)
    calls,    \* operations performed since construction
    game,     \* the Game object's loop fields: state, _lastTime, _totalTime, gameSpeed
    twin      \* two games side by side that differ in the player: their trafficCars

vars == <<aiCars, ev, calls, game, twin>>

\* the fields of Game outside the agents
world == <<game, twin>>

(***************************************************************************)
(* Bounds of the model                                                     *)
(***************************************************************************)
NumAI == 2          \* agents in the orchestrated roster
YBelow == 60000     \* no operation is taken that leaves an agent's y outside
YAbove == 100000    \*   -YBelow .. YAbove
MaxCalls == 4       \* operations a caller performs on the agents it constructed
TimerDepth == 0     \* _stateTimer is only compared with 0: kept at >= -TimerDepth
MaxTicks == 1       \* ticks of the orchestrated roster after Game._startGame

(***************************************************************************)
(* Program constants                                                       *)
(***************************************************************************)
LANE_CENTERS == <<8000, 24000, 40000>>
CANVAS_H == 72000
AI_WIDTH == 3600
AI_HEIGHT == 6200
LATERAL_SPEED == 650
INITIAL_LANE_CHANGE_COOLDOWN == 750
\* dt = Math.min((ts - lastTime) / 1000, 0.05) of Game._loop, in ms
FRAME_DT_MAX == 50
BASE_SPEED == 200
MAX_SPEED == 650
\* px/s gained per second of play
SPEED_RAMP == 16

Lanes == {0, 1, 2}
STATES == {"CRUISE", "DODGE", "ACCELERATE", "OVERTAKE", "BLOCK"}

Abs(n) == IF n < 0 THEN 0 - n ELSE n
Min(a, b) == IF a < b THEN a ELSE b
Max(a, b) == IF a > b THEN a ELSE b
Sign(n) == IF n > 0 THEN 1 ELSE IF n < 0 THEN 0 - 1 ELSE 0

Center(l) == LANE_CENTERS[l + 1]

(***************************************************************************)
(* AICar                                                                   *)
(***************************************************************************)
\* constructor(lane, y, laneCenters); aggression and reactionTime are the
\* two Math.random() draws of the constructor
AICar(id, lane, y, aggression, reactionTime) ==
    [ id                   |-> id,
      lane                 |-> lane,
      x                    |-> Center(lane),
      y                    |-> y,
      state                |-> "CRUISE",
      stateTimer           |-> 0,
      aggression           |-> aggression,
      reactionTime         |-> reactionTime,
      reactionTimer        |-> 0,
      targetLane           |-> lane,
      laneChangeCooldown   |-> 0,
      LANE_CHANGE_COOLDOWN |-> INITIAL_LANE_CHANGE_COOLDOWN,
      lookAhead            |-> 13000,
      rubberBandMult       |-> 10000,
      playerBehind         |-> FALSE,
      blockTimer           |-> 0 ]

\* speedT = Math.min((gameSpeed - 200) / 400, 1), in 1/1000
SpeedT(gameSpeed) == Min(((gameSpeed - 200) * 1000) \div 400, 1000)

\* _respawnAbove putting the agent 100 px above the player, not 740
RespawnJustAbove(a, player, draw) ==
    [a EXCEPT !.y = player.y - 10000 - draw.off,
              !.lane = draw.lane,
              !.targetLane = draw.lane,
              !.x = Center(draw.lane),
              !.state = "CRUISE",
              !.playerBehind = FALSE]

\* _respawnAbove(player); draw.off is Math.random() * 300 (in 1/100 px),
\* draw.lane is Math.floor(Math.random() * 3)
RespawnAbove(a, player, draw) ==
    [a EXCEPT !.y = player.y - 74000 - draw.off,
              !.lane = draw.lane,
              !.targetLane = draw.lane,
              !.x = Center(draw.lane),
              !.state = "CRUISE",
              !.playerBehind = FALSE]

\* the test of _updateRubberBand that selects the hard reset
TooFarBehind(a, player) == a.y - player.y < 0 - 8000

\* _updateRubberBand(player, gameSpeed)
UpdateRubberBand(a, player, draw) ==
    LET delta == a.y - player.y IN
    IF delta > 22000 THEN [a EXCEPT !.rubberBandMult = 8200]
    ELSE IF delta < 0 - 8000
         THEN [RespawnAbove(a, player, draw) EXCEPT !.rubberBandMult = 10000]
         ELSE [a EXCEPT !.rubberBandMult = 10000]

\* the obstacle test shared by _scanObstacle (factor 6: width * 0.6 around
\* this.x) and by _dodge (factor 5: width * 0.5 around a lane center)
ObstacleNear(a, o, cx, factor) ==
    /\ 10 * Abs(o.x - cx) < factor * AI_WIDTH + 4 * o.width
    /\ o.y > a.y - a.lookAhead
    /\ o.y < a.y + AI_HEIGHT

\* _scanObstacle(obstacles)
ScanObstacle(a, obstacles) ==
    \E k \in 1..Len(obstacles) : ObstacleNear(a, obstacles[k], a.x, 6)

\* the hasObstacle test of _dodge for lane l
HasObstacle(a, l, obstacles) ==
    \E k \in 1..Len(obstacles) : ObstacleNear(a, obstacles[k], Center(l), 5)

\* _laneOccupied testing the peers' positions only
LaneOccupiedByPosition(a, l, peers) ==
    \E k \in 1..Len(peers) :
        /\ peers[k].id # a.id
        /\ Abs(peers[k].y - a.y) < 8000
        /\ Abs(peers[k].x - LANE_CENTERS[l + 1]) < 4400

\* _laneOccupied(l, peers)
LaneOccupied(a, l, peers) ==
    \E k \in 1..Len(peers) :
        /\ peers[k].id # a.id
        /\ Abs(peers[k].y - a.y) < 8000
        /\ (Abs(peers[k].x - Center(l)) < 4400 \/ peers[k].targetLane = l)

\* _changeLane taking the new lane at once
ChangeLaneAtOnce(a, newLane) ==
    IF newLane < 0 \/ newLane > 2 \/ newLane = a.targetLane THEN a
    ELSE [a EXCEPT !.targetLane = newLane, !.lane = newLane,
                   !.laneChangeCooldown = a.LANE_CHANGE_COOLDOWN]

\* _changeLane(newLane)
ChangeLane(a, newLane) ==
    IF newLane < 0 \/ newLane > 2 \/ newLane = a.targetLane THEN a
    ELSE [a EXCEPT !.targetLane = newLane,
                   !.laneChangeCooldown = a.LANE_CHANGE_COOLDOWN]

\* safeLanes of _dodge, before sorting
SafeLanes(a, obstacles, peers) ==
    {l \in Lanes : ~HasObstacle(a, l, obstacles) /\ ~LaneOccupied(a, l, peers)}

\* the first element of a set of lanes filtered from [0, 1, 2] and stably
\* sorted by distance to this.lane: nearest, lower index on a tie
NearestLowFirst(S, lane) ==
    CHOOSE l \in S : \A m \in S :
        \/ Abs(l - lane) < Abs(m - lane)
        \/ (Abs(l - lane) = Abs(m - lane) /\ l <= m)

\* _dodge without its cooldown test
DodgeNoCooldown(a, obstacles, peers) ==
    LET safe == SafeLanes(a, obstacles, peers) IN
    IF safe = {} THEN a
    ELSE ChangeLane(a, NearestLowFirst(safe, a.lane))

\* _dodge(obstacles, peers)
Dodge(a, obstacles, peers) ==
    IF a.laneChangeCooldown > 0 THEN a
    ELSE LET safe == SafeLanes(a, obstacles, peers) IN
         IF safe = {} THEN a
         ELSE ChangeLane(a, NearestLowFirst(safe, a.lane))

\* freeLanes of _planOvertake
FreeLanes(a, player, peers) ==
    {l \in Lanes : l # player.lane /\ ~LaneOccupied(a, l, peers)}

\* freeLanes.reduce((a, b) => |a - lane| < |b - lane| ? a : b) over the
\* lanes in ascending order: the accumulator is kept only when strictly nearer
RECURSIVE ReduceNearest(_, _, _)
ReduceNearest(acc, rest, lane) ==
    IF rest = {} THEN acc
    ELSE LET b == CHOOSE m \in rest : \A n \in rest : m <= n IN
         ReduceNearest(IF Abs(acc - lane) < Abs(b - lane) THEN acc ELSE b,
                       rest \ {b}, lane)

\* _planOvertake breaking a tie toward the lower lane index, as _dodge does
PlanOvertakeLowFirst(a, player, peers) ==
    IF a.laneChangeCooldown > 0 THEN a
    ELSE LET free == FreeLanes(a, player, peers) IN
         IF free = {} THEN a
         ELSE ChangeLane(a, NearestLowFirst(free, a.lane))

\* _planOvertake(player, peers)
PlanOvertake(a, player, peers) ==
    IF a.laneChangeCooldown > 0 THEN a
    ELSE LET free == FreeLanes(a, player, peers) IN
         IF free = {} THEN a
         ELSE LET first == CHOOSE m \in free : \A n \in free : m <= n IN
              ChangeLane(a, ReduceNearest(first, free \ {first}, a.lane))

\* _planBlock without its occupancy test
PlanBlockUnchecked(a, player, peers) ==
    IF a.laneChangeCooldown > 0 THEN a
    ELSE ChangeLane(a, player.lane)

\* _planBlock(player, peers)
PlanBlock(a, player, peers) ==
    IF a.laneChangeCooldown > 0 THEN a
    ELSE IF ~LaneOccupied(a, player.lane, peers) THEN ChangeLane(a, player.lane)
         ELSE a

\* the BLOCK test without its cooldown
BlockConditionNoCooldown(a) == a.aggression > 82 /\ a.state # "BLOCK"

\* the BLOCK test with its aggression threshold at 0.92
BlockConditionHigh(a) == a.aggression > 92 /\ a.state # "BLOCK" /\ a.blockTimer <= 0

\* the OVERTAKE test refusing an agent that is in BLOCK
OvertakeConditionNotFromBlock(a) ==
    a.aggression > 65 /\ a.state \notin {"OVERTAKE", "BLOCK"}

\* the OVERTAKE test with its aggression threshold met at 0.65 itself
OvertakeConditionInclusive(a) == a.aggression >= 65 /\ a.state # "OVERTAKE"

\* the conditions _think tests, in its order
DodgeCondition(a, obstacles) == ScanObstacle(a, obstacles) /\ a.state # "DODGE"
CatchUpCondition(a, player) == a.y - player.y < 0 - 4000
NearPlayer(a, player) == Abs(a.y - player.y) < 14000
BlockCondition(a) == a.aggression > 82 /\ a.state # "BLOCK" /\ a.blockTimer <= 0
OvertakeCondition(a) == a.aggression > 65 /\ a.state # "OVERTAKE"

\* the lane-change planner a think cycle of agent a calls
Planner(a, player, obstacles) ==
    IF DodgeCondition(a, obstacles) THEN "dodge"
    ELSE IF CatchUpCondition(a, player) THEN "none"
    ELSE IF NearPlayer(a, player) /\ BlockCondition(a) THEN "block"
    ELSE IF NearPlayer(a, player) /\ OvertakeCondition(a) THEN "overtake"
    ELSE "none"

\* _think testing the catch-up condition before the hazard
ThinkCatchUpFirst(a0, player, obstacles, peers) ==
    LET a == [a0 EXCEPT !.reactionTimer = a0.reactionTime] IN
    IF CatchUpCondition(a, player)
    THEN [a EXCEPT !.state = "ACCELERATE", !.stateTimer = 600]
    ELSE IF DodgeCondition(a, obstacles)
    THEN Dodge([a EXCEPT !.state = "DODGE", !.stateTimer = 1200], obstacles, peers)
    ELSE IF a.stateTimer <= 0 THEN [a EXCEPT !.state = "CRUISE"] ELSE a

\* _think without its default branch: an elapsed state is kept
ThinkNoExpiry(a0, player, obstacles, peers) ==
    LET a == [a0 EXCEPT !.reactionTimer = a0.reactionTime] IN
    IF DodgeCondition(a, obstacles)
    THEN Dodge([a EXCEPT !.state = "DODGE", !.stateTimer = 1200], obstacles, peers)
    ELSE IF CatchUpCondition(a, player)
    THEN [a EXCEPT !.state = "ACCELERATE", !.stateTimer = 600]
    ELSE IF NearPlayer(a, player) /\ BlockCondition(a)
    THEN PlanBlock([a EXCEPT !.state = "BLOCK", !.stateTimer = 1400,
                             !.blockTimer = 3000], player, peers)
    ELSE IF NearPlayer(a, player) /\ OvertakeCondition(a)
    THEN PlanOvertake([a EXCEPT !.state = "OVERTAKE", !.stateTimer = 1000],
                      player, peers)
    ELSE IF a.blockTimer > 0
         THEN [a EXCEPT !.blockTimer = a.blockTimer - (a.reactionTime + 1)]
         ELSE a

\* _think(player, obstacles, peers)
Think(a0, player, obstacles, peers) ==
    LET a == [a0 EXCEPT !.reactionTimer = a0.reactionTime] IN
    IF DodgeCondition(a, obstacles)
    THEN Dodge([a EXCEPT !.state = "DODGE", !.stateTimer = 1200], obstacles, peers)
    ELSE IF CatchUpCondition(a, player)
    THEN [a EXCEPT !.state = "ACCELERATE", !.stateTimer = 600]
    ELSE IF NearPlayer(a, player) /\ BlockCondition(a)
    THEN PlanBlock([a EXCEPT !.state = "BLOCK", !.stateTimer = 1400,
                             !.blockTimer = 3000], player, peers)
    ELSE IF NearPlayer(a, player) /\ OvertakeCondition(a)
    THEN PlanOvertake([a EXCEPT !.state = "OVERTAKE", !.stateTimer = 1000],
                      player, peers)
    ELSE LET b == IF a.blockTimer > 0
                  THEN [a EXCEPT !.blockTimer = a.blockTimer - (a.reactionTime + 1)]
                  ELSE a IN
         IF b.stateTimer <= 0 THEN [b EXCEPT !.state = "CRUISE"] ELSE b

\* vMult of _applyMovement, in 1/10000
VMult(a) ==
    IF a.state = "ACCELERATE" THEN (a.rubberBandMult * 118) \div 100
    ELSE IF a.state = "BLOCK" THEN (a.rubberBandMult * 105) \div 100
    ELSE a.rubberBandMult

\* step = LATERAL_SPEED * dt, in 1/100 px for dt in ms
LateralStep(dt) == (LATERAL_SPEED * dt) \div 10

\* the snap test of _applyMovement
Snaps(a, dt) == Abs(Center(a.targetLane) - a.x) <= LateralStep(dt)

\* _applyMovement without the snap: x always advances by the full step
ApplyMovementNoSnap(a, dt, gameSpeed) ==
    LET relMove == (gameSpeed * dt * (VMult(a) - 10000)) \div 100000
        targetX == Center(a.targetLane)
        dx      == targetX - a.x
        x2      == a.x + Sign(dx) * LateralStep(dt)
    IN  [a EXCEPT !.y = a.y + relMove, !.x = x2,
                  !.lane = IF x2 = targetX THEN a.targetLane ELSE a.lane]

\* _applyMovement committing a one-based lane index on the snap
ApplyMovementOneBased(a, dt, gameSpeed) ==
    LET relMove == (gameSpeed * dt * (VMult(a) - 10000)) \div 100000
        targetX == Center(a.targetLane)
        dx      == targetX - a.x
        b       == [a EXCEPT !.y = a.y + relMove]
    IN  IF Snaps(a, dt)
        THEN [b EXCEPT !.x = targetX, !.lane = a.targetLane + 1]
        ELSE [b EXCEPT !.x = a.x + Sign(dx) * LateralStep(dt)]

\* _applyMovement committing lane on every step
ApplyMovementEagerLane(a, dt, gameSpeed) ==
    LET relMove == (gameSpeed * dt * (VMult(a) - 10000)) \div 100000
        targetX == Center(a.targetLane)
        dx      == targetX - a.x
        b       == [a EXCEPT !.y = a.y + relMove, !.lane = a.targetLane]
    IN  IF Snaps(a, dt)
        THEN [b EXCEPT !.x = targetX]
        ELSE [b EXCEPT !.x = a.x + Sign(dx) * LateralStep(dt)]

\* _applyMovement(dt, gameSpeed)
ApplyMovement(a, dt, gameSpeed) ==
    LET relMove == (gameSpeed * dt * (VMult(a) - 10000)) \div 100000
        targetX == Center(a.targetLane)
        dx      == targetX - a.x
        b       == [a EXCEPT !.y = a.y + relMove]
    IN  IF Snaps(a, dt)
        THEN [b EXCEPT !.x = targetX, !.lane = a.targetLane]
        ELSE [b EXCEPT !.x = a.x + Sign(dx) * LateralStep(dt)]

\* the scaling with a lane-change cooldown of 0.1 s, shorter than a transit
ScaleShortCooldown(a, dt, gameSpeed) ==
    LET speedT == SpeedT(gameSpeed) IN
    [a EXCEPT !.lookAhead = 13000 + speedT * 9,
              !.LANE_CHANGE_COOLDOWN = 100,
              !.reactionTime = Max(0, (a.reactionTime * (10000 - 3 * speedT)) \div 10000),
              !.stateTimer = Max(0 - TimerDepth, a.stateTimer - dt),
              !.laneChangeCooldown = IF a.laneChangeCooldown > 0
                                     THEN a.laneChangeCooldown - dt
                                     ELSE a.laneChangeCooldown]

\* the difficulty scaling and timer decay at the head of update()
Scale(a, dt, gameSpeed) ==
    LET speedT == SpeedT(gameSpeed) IN
    [a EXCEPT !.lookAhead = 13000 + speedT * 9,
              !.LANE_CHANGE_COOLDOWN = Max(800, 1500 - speedT \div 2),
              !.reactionTime = Max(0, (a.reactionTime * (10000 - 3 * speedT)) \div 10000),
              !.stateTimer = Max(0 - TimerDepth, a.stateTimer - dt),
              !.laneChangeCooldown = IF a.laneChangeCooldown > 0
                                     THEN a.laneChangeCooldown - dt
                                     ELSE a.laneChangeCooldown]

\* update() running the regulator only when the reaction gate is open
BeforeGateGated(a, dt, gameSpeed, player, draw) ==
    IF a.reactionTimer <= 0
    THEN UpdateRubberBand(Scale(a, dt, gameSpeed), player, draw)
    ELSE Scale(a, dt, gameSpeed)

\* the state of the agent when update() reaches its reaction gate
BeforeGate(a, dt, gameSpeed, player, draw) ==
    UpdateRubberBand(Scale(a, dt, gameSpeed), player, draw)

\* update() from its reaction gate on, its reaction timer running four times
\* too fast
AfterGateFastTimer(b, dt, gameSpeed, player, obstacles, peers) ==
    ApplyMovement(IF b.reactionTimer > 0
                  THEN [b EXCEPT !.reactionTimer = b.reactionTimer - 4 * dt]
                  ELSE Think(b, player, obstacles, peers),
                  dt, gameSpeed)

\* update() from its reaction gate on: the gate, _think and _applyMovement
AfterGate(b, dt, gameSpeed, player, obstacles, peers) ==
    ApplyMovement(IF b.reactionTimer > 0
                  THEN [b EXCEPT !.reactionTimer = b.reactionTimer - dt]
                  ELSE Think(b, player, obstacles, peers),
                  dt, gameSpeed)

\* update(dt, gameSpeed, player, obstacles, peers)
Update(a, dt, gameSpeed, player, obstacles, peers, draw) ==
    AfterGate(BeforeGate(a, dt, gameSpeed, player, draw),
              dt, gameSpeed, player, obstacles, peers)

\* scroll(amount)
Scroll(a, amount) == [a EXCEPT !.y = a.y + amount]

(***************************************************************************)
(* What a caller can pass                                                  *)
(***************************************************************************)
\* the player never moves in y (PlayerCar: this.y = CANVAS_H - 120)
PLAYER_Y == CANVAS_H - 12000

\* pInfo = { x, y, lane } of Game._update
PlayerAt(l) == [x |-> Center(l), y |-> PLAYER_Y, lane |-> l]

DtSet == {0, 200, 1300}
GameSpeeds == {200}
ScrollAmounts == {25000}
InitYs == {0 - 12000, 54000, 60000}
Personalities == {[aggression |-> 50, reactionTime |-> 100],
                  [aggression |-> 70, reactionTime |-> 0],
                  [aggression |-> 90, reactionTime |-> 100]}
RespawnOffsets == {0, 15000}
Draws == [lane : Lanes, off : RespawnOffsets]
NoDraw == [lane |-> 0, off |-> 0]

\* an obstacle 50 px ahead of agent a: on a lane center, or 33 px right of a
Obstacles(a) ==
    {[x |-> ox, y |-> a.y - 5000, width |-> 3600] :
        ox \in {Center(0), Center(1), Center(2), a.x + 3300}}

\* the obstacles argument: no obstacle, or one
ObstacleSets(a) == {<<>>} \cup {<<o>> : o \in Obstacles(a)}

\* what _laneOccupied reads of a peer
AsPeer(a) == [id |-> a.id, x |-> a.x, y |-> a.y, targetLane |-> a.targetLane]

\* another agent dy behind an agent at y, sitting in lane l and heading for
\* lane tl >= l
OtherPeers(y, dys) ==
    {[id |-> 2, x |-> Center(lt[1]), y |-> y + dy, targetLane |-> lt[2]] :
        lt \in {q \in Lanes \X Lanes : q[1] <= q[2]}, dy \in dys}

\* the peers argument: the roster holds the agent itself, alone or with one
\* other agent
PeerRosters(a, dys) ==
    {<<AsPeer(a)>>} \cup {<<AsPeer(a), p>> : p \in OtherPeers(a.y, dys)}

InRange(a) == a.y >= 0 - YBelow /\ a.y <= YAbove

\* ev: op, the operation; respawn, the hard reset fired; think, a think cycle
\* ran; dodgeCond and catchUp, the conditions of _think as the cycle found
\* them; planner, the planner the cycle called; cooling, laneChangeCooldown > 0
\* and gateTarget, targetLane, when update() reached its reaction gate;
\* settled, the agent then sat on its target (lane = targetLane, x on the
\* lane's center); startLane, lane when the operation began; commits, the
\* lane changes planners have committed since construction, counted to 2;
\* clamped, every update() so far was passed a dt within Game._loop's clamp;
\* queried, the planner ran _laneOccupied over the peers; frame, the other
\* agents in the peers argument carried the values they had when the caller
\* began its pass; midway, x was off every lane center when the operation
\* began; and, as update() reached its reaction gate: hazard, _scanObstacle
\* was true of the obstacles passed; behind, y - player.y < -40; near,
\* |y - player.y| < 140; expired, _stateTimer <= 0; blockReady,
\* _blockTimer <= 0; gateState, state; awarded, Game._checkOvertakes awarded
\* an overtake of this agent at the end of the tick; noLane, the planner of
\* the think cycle searched and found no qualifying lane; kept, _think
\* returned with lane, targetLane and laneChangeCooldown as they were at the
\* gate; grew, a countdown of update() left _stateTimer, laneChangeCooldown
\* or _reactionTimer larger than it found it; laneAtGate, lane when update()
\* reached its reaction gate; laneThought, lane when it reached _applyMovement;
\* ahead, y - player.y > 220 when update() was called
NoEvent == [op |-> "new", respawn |-> FALSE, think |-> FALSE, dodgeCond |-> FALSE,
            catchUp |-> FALSE, planner |-> "none", cooling |-> FALSE,
            gateTarget |-> 0, settled |-> TRUE, startLane |-> 0, commits |-> 0,
            clamped |-> TRUE, queried |-> FALSE, frame |-> TRUE, midway |-> FALSE,
            hazard |-> FALSE, behind |-> FALSE, near |-> FALSE, expired |-> TRUE,
            blockReady |-> TRUE, gateState |-> "CRUISE", awarded |-> FALSE,
            noLane |-> FALSE, kept |-> TRUE, grew |-> FALSE, laneAtGate |-> 0,
            laneThought |-> 0, ahead |-> FALSE]

Settled(a) == a.lane = a.targetLane /\ a.x = Center(a.lane)

\* the planner of a think cycle reaches a call of _laneOccupied: the cooldown
\* has run out and, in _dodge, some lane is free of obstacles
Queries(b, planner, obstacles) ==
    /\ planner # "none"
    /\ b.laneChangeCooldown <= 0
    /\ planner = "dodge" => \E l \in Lanes : ~HasObstacle(b, l, obstacles)

\* the planner of a think cycle searches the lanes and none qualifies: in
\* _dodge safeLanes is empty, in _planOvertake freeLanes is empty, in
\* _planBlock the player's lane is occupied
NoViableLane(b, planner, player, obstacles, peers) ==
    /\ b.laneChangeCooldown <= 0
    /\ \/ planner = "dodge" /\ SafeLanes(b, obstacles, peers) = {}
       \/ planner = "overtake" /\ FreeLanes(b, player, peers) = {}
       \/ planner = "block" /\ LaneOccupied(b, player.lane, peers)

\* the record of one update(): a the agent before it, b at the reaction gate,
\* c after it
UpdateEvent(prev, a, b, c, dt, player, obstacles, frame, peers) ==
    LET thinks  == b.reactionTimer <= 0
        planner == IF thinks THEN Planner(b, player, obstacles) ELSE "none"
        thought == IF thinks THEN Think(b, player, obstacles, peers) ELSE b
    IN  [op         |-> "update",
         respawn    |-> TooFarBehind(a, player),
         think      |-> thinks,
         dodgeCond  |-> thinks /\ DodgeCondition(b, obstacles),
         catchUp    |-> thinks /\ CatchUpCondition(b, player),
         planner    |-> planner,
         cooling    |-> b.laneChangeCooldown > 0,
         gateTarget |-> b.targetLane,
         settled    |-> Settled(b),
         startLane  |-> a.lane,
         commits    |-> IF c.targetLane # b.targetLane
                        THEN Min(prev.commits + 1, 2)
                        ELSE prev.commits,
         clamped    |-> prev.clamped /\ dt <= FRAME_DT_MAX,
         queried    |-> Queries(b, planner, obstacles),
         frame      |-> frame,
         midway     |-> \A l \in Lanes : a.x # Center(l),
         hazard     |-> ScanObstacle(b, obstacles),
         behind     |-> CatchUpCondition(b, player),
         near       |-> NearPlayer(b, player),
         expired    |-> b.stateTimer <= 0,
         blockReady |-> b.blockTimer <= 0,
         gateState  |-> b.state,
         awarded    |-> FALSE,
         noLane     |-> NoViableLane(b, planner, player, obstacles, peers),
         kept       |-> /\ thought.lane = b.lane
                        /\ thought.targetLane = b.targetLane
                        /\ thought.laneChangeCooldown = b.laneChangeCooldown,
         grew       |-> \/ b.stateTimer > a.stateTimer
                        \/ b.laneChangeCooldown > a.laneChangeCooldown
                        \/ (b.reactionTimer > 0 /\ c.reactionTimer > b.reactionTimer),
         laneAtGate |-> b.lane,
         laneThought |-> thought.lane,
         ahead      |-> a.y - player.y > 22000]

\* game and twin where no tick loop and no traffic are modelled
NoGame == [state |-> "PLAYING"]
NoTwin == <<>>

(***************************************************************************)
(* One AICar driven by an arbitrary caller                                 *)
(***************************************************************************)
Init ==
    /\ \E lane \in Lanes, y \in InitYs, p \in Personalities :
           aiCars = <<AICar(1, lane, y, p.aggression, p.reactionTime)>>
    /\ ev = <<[NoEvent EXCEPT !.gateTarget = aiCars[1].targetLane,
                              !.startLane = aiCars[1].lane]>>
    /\ calls = 0
    /\ game = NoGame
    /\ twin = NoTwin

\* car.update(dt, gameSpeed, player, obstacles, peers) for dt in dts and
\* gameSpeed in speeds.  An argument the call never reads (the draws without
\* a hard reset, obstacles without a think cycle, the player's lane and the
\* peers when no planner runs) is passed as one fixed value.
UpdateCall(dts, speeds) ==
    \E dt \in dts, gameSpeed \in speeds :
    LET a == aiCars[1] IN
    \E draw \in (IF TooFarBehind(a, PlayerAt(1)) THEN Draws ELSE {NoDraw}) :
    \E b \in {BeforeGate(a, dt, gameSpeed, PlayerAt(1), draw)} :
    LET thinks == b.reactionTimer <= 0 IN
    \E obstacles \in (IF thinks THEN ObstacleSets(b) ELSE {<<>>}) :
    \E planner \in {IF thinks THEN Planner(b, PlayerAt(1), obstacles) ELSE "none"} :
    \E pl \in (IF planner \in {"block", "overtake"} THEN Lanes ELSE {1}) :
    \E peers \in (IF planner # "none" THEN PeerRosters(b, {5000})
                  ELSE {<<AsPeer(b)>>}) :
    \E c \in {AfterGate(b, dt, gameSpeed, PlayerAt(pl), obstacles, peers)} :
        /\ InRange(c)
        /\ aiCars' = <<c>>
        /\ ev' = <<UpdateEvent(ev[1], a, b, c, dt, PlayerAt(pl), obstacles, TRUE,
                               peers)>>

DoUpdate ==
    /\ calls < MaxCalls
    /\ calls' = calls + 1
    /\ UpdateCall(DtSet, GameSpeeds)
    /\ UNCHANGED world

\* car.scroll(amount)
DoScroll ==
    /\ calls < MaxCalls
    /\ calls' = calls + 1
    /\ \E amount \in ScrollAmounts :
       LET c == Scroll(aiCars[1], amount) IN
           /\ InRange(c)
           /\ aiCars' = <<c>>
           /\ ev' = <<[NoEvent EXCEPT !.op = "scroll",
                                      !.gateTarget = c.targetLane,
                                      !.startLane = c.lane,
                                      !.commits = ev[1].commits,
                                      !.clamped = ev[1].clamped]>>
    /\ UNCHANGED world

\* car._updateRubberBand(player, gameSpeed) called on its own
DoRubberBand ==
    /\ calls < MaxCalls
    /\ calls' = calls + 1
    /\ LET a == aiCars[1] IN
       \E draw \in (IF TooFarBehind(a, PlayerAt(1)) THEN Draws ELSE {NoDraw}) :
           /\ aiCars' = <<UpdateRubberBand(a, PlayerAt(1), draw)>>
           /\ ev' = <<[NoEvent EXCEPT !.op = "rubberBand",
                                      !.respawn = TooFarBehind(a, PlayerAt(1)),
                                      !.gateTarget = a.targetLane,
                                      !.startLane = a.lane,
                                      !.commits = ev[1].commits,
                                      !.clamped = ev[1].clamped]>>
    /\ UNCHANGED world

Next == DoUpdate \/ DoScroll \/ DoRubberBand

Spec == Init /\ [][Next]_vars

(***************************************************************************)
(* One AICar beside the player, ticked for as long as the caller likes:    *)
(* with the dt of Game._loop (clamped to 0.05 s) or with a long dt         *)
(***************************************************************************)
FrameDts == {0, FRAME_DT_MAX}
LongDts == {1500}
FrameSpeeds == {600}
FramePersonalities == {[aggression |-> 70, reactionTime |-> 0]}

FrameInit ==
    /\ \E lane \in Lanes, p \in FramePersonalities :
           aiCars = <<AICar(1, lane, PLAYER_Y, p.aggression, p.reactionTime)>>
    /\ ev = <<[NoEvent EXCEPT !.gateTarget = aiCars[1].targetLane,
                              !.startLane = aiCars[1].lane]>>
    /\ calls = 0
    /\ game = NoGame
    /\ twin = NoTwin

FrameUpdate ==
    /\ UpdateCall(FrameDts, FrameSpeeds)
    /\ UNCHANGED calls
    /\ UNCHANGED world

LongUpdate ==
    /\ UpdateCall(LongDts, FrameSpeeds)
    /\ UNCHANGED calls
    /\ UNCHANGED world

FrameNext == FrameUpdate \/ LongUpdate

FrameSpec == FrameInit /\ [][FrameNext]_vars

(***************************************************************************)
(* The AI pass of Game._update over the roster of Game._spawnAI: every     *)
(* agent in roster order is updated against the roster as it stands, then  *)
(* scrolled                                                                *)
(***************************************************************************)
PassDts == {0, FRAME_DT_MAX}
PassSpeeds == {200, 600}
PassPersonalities == {[aggression |-> 50, reactionTime |-> 0]}
PassOffsets == {0, 5000}

\* scrollSpeed over gameSpeed, in percent: braking, neither, nitro
ScrollPercents == {45, 100, 160}

\* scroll = scrollSpeed * dt
ScrollOf(gameSpeed, dt, percent) == (gameSpeed * dt * percent) \div 1000

\* new AICar(lane, -120 - i * 210, LANE_CENTERS) for the agent at index i
SpawnY(i) == 0 - 12000 - (i - 1) * 21000

\* this.trafficCars: empty, or one car in a lane above the screen (the second
\* car of a double spawn, y = -180, scrolled 5 px)
TrafficCars ==
    {<<>>} \cup {<<[x |-> Center(l), y |-> 0 - 17500, width |-> 3600]>> : l \in Lanes}

\* this.aiCars as _laneOccupied reads it
PeersOf(r) == [j \in 1..Len(r) |-> AsPeer(r[j])]

\* one draw of _respawnAbove, with a lane in lanes, for each agent the
\* regulator resets
DrawsIn(r, player, lanes, offsets) ==
    {d \in [1..Len(r) -> [lane : lanes \cup {NoDraw.lane}, off : offsets \cup {NoDraw.off}]] :
        \A i \in 1..Len(r) :
            IF TooFarBehind(r[i], player)
            THEN d[i].lane \in lanes /\ d[i].off \in offsets
            ELSE d[i] = NoDraw}

\* one draw of _respawnAbove for each agent the regulator resets
DrawsFor(r, player, offsets) == DrawsIn(r, player, Lanes, offsets)

\* the other agents of roster live carry the values they have in roster r
SameFrame(r, live, i) ==
    \A j \in 1..Len(r) : j # i => AsPeer(live[j]) = AsPeer(r[j])

\* the loop body for the agent at index n, on the roster and the records as
\* they stand in st: update against the live roster, then scroll.  r is the
\* roster at tick start; b is the agent at its reaction gate, c after update()
Advance(r, st, n, dt, gameSpeed, player, traffic, draw, scroll) ==
    CHOOSE out \in UNION {
        {[roster |-> [st.roster EXCEPT ![n] = Scroll(c, scroll)],
          events |-> [st.events EXCEPT ![n] =
                        [UpdateEvent(st.events[n], st.roster[n], b, c, dt, player,
                                     traffic, SameFrame(r, st.roster, n),
                                     PeersOf(st.roster))
                            EXCEPT !.op = "tick"]]] :
            c \in {AfterGate(b, dt, gameSpeed, player, traffic, PeersOf(st.roster))}} :
        b \in {BeforeGate(st.roster[n], dt, gameSpeed, player, draw)}} : TRUE

\* the roster, and the records e, after the loop body has run for the first
\* n agents
RECURSIVE PassPrefix(_, _, _, _, _, _, _, _, _)
PassPrefix(r, e, n, dt, gameSpeed, player, traffic, draws, scroll) ==
    IF n = 0 THEN [roster |-> r, events |-> e]
    ELSE CHOOSE out \in
             {Advance(r, st, n, dt, gameSpeed, player, traffic, draws[n], scroll) :
                 st \in {PassPrefix(r, e, n - 1, dt, gameSpeed, player, traffic,
                                    draws, scroll)}} : TRUE

\* Game._checkOvertakes for one agent: the first test raises _playerBehind,
\* the second lowers it
CheckOvertake(a, player) ==
    LET b == IF ~a.playerBehind /\ a.y > player.y + 4000
             THEN [a EXCEPT !.playerBehind = TRUE]
             ELSE a
    IN  IF b.playerBehind /\ b.y < player.y - 4000
        THEN [b EXCEPT !.playerBehind = FALSE]
        ELSE b

\* the second test of Game._checkOvertakes fires for agent a: score and
\* _sdkPoints grow by POINTS_PER_OVERTAKE and the 'overtake' cue plays
Awards(a, player) ==
    (a.playerBehind \/ a.y > player.y + 4000) /\ a.y < player.y - 4000

\* a variant that treats agents like traffic and filters away those far
\* above the player
CheckOvertakesFiltering(roster, player) ==
    SelectSeq([i \in 1..Len(roster) |-> CheckOvertake(roster[i], player)],
              LAMBDA a : a.y > player.y - 74000)

\* the loop of Game._checkOvertakes over this.aiCars: every agent is visited
\* and stays in the roster
CheckOvertakes(roster, player) ==
    [i \in 1..Len(roster) |-> CheckOvertake(roster[i], player)]

PassInit ==
    /\ \E lanes \in [1..NumAI -> Lanes], ps \in [1..NumAI -> PassPersonalities] :
           aiCars = [i \in 1..NumAI |->
                        AICar(i, lanes[i], SpawnY(i), ps[i].aggression, ps[i].reactionTime)]
    /\ ev = [i \in 1..NumAI |-> [NoEvent EXCEPT !.gateTarget = aiCars[i].targetLane,
                                                !.startLane = aiCars[i].lane]]
    /\ calls = 0
    /\ game = NoGame
    /\ twin = NoTwin

\* the AI pass and the overtake check of one Game._update(dt), on a road
\* holding one of traffics
AIPassOn(dt, gameSpeed, percents, traffics, drawSets) ==
    \E traffic \in traffics, draws \in drawSets :
    \E scroll \in {ScrollOf(gameSpeed, dt, percent) : percent \in percents} :
    \E st \in {PassPrefix(aiCars, ev, Len(aiCars), dt, gameSpeed, PlayerAt(1),
                          traffic, draws, scroll)} :
        /\ \A i \in 1..Len(aiCars) : InRange(st.roster[i])
        /\ aiCars' = CheckOvertakes(st.roster, PlayerAt(1))
        /\ ev' = [i \in 1..Len(aiCars) |->
                     [st.events[i] EXCEPT !.awarded = Awards(st.roster[i], PlayerAt(1))]]

\* the same for a dt in dts and a gameSpeed in PassSpeeds
AIPass(dts, percents, traffics, offsets) ==
    \E dt \in dts, gameSpeed \in PassSpeeds :
        AIPassOn(dt, gameSpeed, percents, traffics,
                 DrawsFor(aiCars, PlayerAt(1), offsets))

Tick ==
    /\ calls < MaxTicks
    /\ calls' = calls + 1
    /\ AIPass(PassDts, ScrollPercents, TrafficCars, PassOffsets)
    /\ UNCHANGED world

PassNext == Tick

PassSpec == PassInit /\ [][PassNext]_vars

(***************************************************************************)
(* The tick loop running forever on an empty road, the player neither      *)
(* braking nor on nitro: requestAnimationFrame keeps calling Game._loop,   *)
(* so ticks of dt > 0 keep coming                                          *)
(***************************************************************************)
QuietPercents == {100}
QuietOffsets == {0}

QuietTick ==
    /\ AIPass(PassDts, QuietPercents, {<<>>}, QuietOffsets)
    /\ UNCHANGED calls
    /\ UNCHANGED world

PositiveTick ==
    /\ AIPass(PassDts \ {0}, QuietPercents, {<<>>}, QuietOffsets)
    /\ UNCHANGED calls
    /\ UNCHANGED world

FairPassNext == QuietTick

FairPassSpec == PassInit /\ [][FairPassNext]_vars /\ WF_vars(PositiveTick)

(***************************************************************************)
(* The tick loop with aggressive agents, at base and at top gameSpeed, the *)
(* player braking or on nitro, on an empty road; calls                     *)
(* counts the ticks up to 2                                                *)
(***************************************************************************)
OrchSpeeds == {BASE_SPEED, MAX_SPEED}
OrchPersonalities == {[aggression |-> 70, reactionTime |-> 100],
                      [aggression |-> 90, reactionTime |-> 0]}

OrchPercents == {45, 160}
\* the lanes drawn at spawn and at a hard reset
OrchLanes == {1}
\* this.trafficCars: an empty road
OrchTraffic == {<<>>}

OrchInit ==
    /\ \E lanes \in [1..NumAI -> OrchLanes], ps \in [1..NumAI -> OrchPersonalities] :
           aiCars = [i \in 1..NumAI |->
                        AICar(i, lanes[i], SpawnY(i), ps[i].aggression, ps[i].reactionTime)]
    /\ ev = [i \in 1..NumAI |-> [NoEvent EXCEPT !.gateTarget = aiCars[i].targetLane,
                                                !.startLane = aiCars[i].lane]]
    /\ calls = 0
    /\ game = NoGame
    /\ twin = NoTwin

\* one Game._update(dt)
OrchTick ==
    /\ calls' = Min(calls + 1, 2)
    /\ \E dt \in PassDts, gameSpeed \in OrchSpeeds :
           AIPassOn(dt, gameSpeed, OrchPercents, OrchTraffic,
                    DrawsIn(aiCars, PlayerAt(1), OrchLanes, PassOffsets))
    /\ UNCHANGED world

OrchNext == OrchTick

OrchSpec == OrchInit /\ [][OrchNext]_vars

(***************************************************************************)
(* The frame loop (Game._loop) and the game's state machine around the AI  *)
(* pass.  requestAnimationFrame passes timestamps that never decrease;     *)
(* _loop reads a timestamp only through ts - _lastTime, so the loop keeps  *)
(* whether _lastTime is set and each frame draws the time elapsed          *)
(***************************************************************************)
MaxGameTime == 28500    \* _totalTime is not advanced beyond this, in ms

\* ts - _lastTime of a frame, in ms: no time, one frame at 20 Hz, a pause of
\* the page
Elapsed == {0, 50, 5000}
LoopSpawnLanes == {1}
LoopRespawnLanes == {1}

\* dt of _loop, in ms, for a frame elapsed ms after the one before
FrameDt(elapsed) == Min(elapsed, FRAME_DT_MAX)

\* gameSpeed of _update, in whole px/s
GameSpeedAt(totalTime) == Min(BASE_SPEED + (totalTime * SPEED_RAMP) \div 1000, MAX_SPEED)

\* a loop that also advances a paused game
PlayingOrPaused(g) == g.state \in {"PLAYING", "PAUSED"}

\* the test of _loop that admits _update
Playing(g) == g.state = "PLAYING"

\* Game after its constructor and start(): the menu, no frame seen yet.  The
\* fields after gameSpeed record the latest frame: the state _loop tested,
\* the time elapsed, the dt and gameSpeed passed to the agents, the gameSpeed
\* of the tick before it in the same game, and the ai.update() calls issued
NewGame ==
    [state |-> "MENU", lastTimeSet |-> FALSE, totalTime |-> 0, gameSpeed |-> BASE_SPEED,
     frameState |-> "MENU", elapsed |-> 0, dt |-> 0, speed |-> BASE_SPEED,
     prevSpeed |-> BASE_SPEED, advanced |-> 0]

LoopInit ==
    /\ aiCars = <<>>
    /\ ev = <<>>
    /\ calls = 0
    /\ game = NewGame
    /\ twin = NoTwin

\* _startGame() from the menu
StartGame ==
    /\ game.state = "MENU"
    /\ \E lanes \in [1..NumAI -> LoopSpawnLanes], ps \in [1..NumAI -> PassPersonalities] :
           aiCars' = [i \in 1..NumAI |->
                         AICar(i, lanes[i], SpawnY(i), ps[i].aggression, ps[i].reactionTime)]
    /\ ev' = [i \in 1..NumAI |-> [NoEvent EXCEPT !.gateTarget = aiCars'[i].targetLane,
                                                 !.startLane = aiCars'[i].lane]]
    /\ game' = [game EXCEPT !.state = "PLAYING", !.totalTime = 0,
                            !.gameSpeed = BASE_SPEED, !.speed = BASE_SPEED,
                            !.prevSpeed = BASE_SPEED, !.advanced = 0]
    /\ UNCHANGED <<calls, twin>>

\* _togglePause()
TogglePause ==
    /\ game.state \in {"PLAYING", "PAUSED"}
    /\ game' = [game EXCEPT !.state = IF game.state = "PLAYING" THEN "PAUSED" ELSE "PLAYING"]
    /\ UNCHANGED <<aiCars, ev, calls, twin>>

\* _gameOver(), reached from _onHit when a collision takes the last life
GameOver ==
    /\ game.state = "PLAYING"
    /\ game' = [game EXCEPT !.state = "GAME_OVER"]
    /\ UNCHANGED <<aiCars, ev, calls, twin>>

\* _returnToMenu()
ReturnToMenu ==
    /\ game.state = "GAME_OVER"
    /\ game' = [game EXCEPT !.state = "MENU"]
    /\ UNCHANGED <<aiCars, ev, calls, twin>>

\* _loop(ts): the first frame finds _lastTime null and sees no time elapsed;
\* a frame of a game that is PLAYING runs _update(dt), here its clock, its
\* gameSpeed and the AI pass on a quiet road
Frame ==
    \E e \in Elapsed :
    \E elapsed \in {IF game.lastTimeSet THEN e ELSE 0} :
    \E dt \in {FrameDt(elapsed)} :
        IF Playing(game)
        THEN \E totalTime \in {game.totalTime + dt} :
             \E gameSpeed \in {GameSpeedAt(totalTime)} :
                 /\ totalTime <= MaxGameTime
                 /\ AIPassOn(dt, gameSpeed, QuietPercents, {<<>>},
                             DrawsIn(aiCars, PlayerAt(1), LoopRespawnLanes, QuietOffsets))
                 /\ game' = [game EXCEPT !.lastTimeSet = TRUE,
                                         !.totalTime = totalTime,
                                         !.gameSpeed = gameSpeed,
                                         !.frameState = game.state,
                                         !.elapsed = elapsed,
                                         !.dt = dt,
                                         !.speed = gameSpeed,
                                         !.prevSpeed = game.speed,
                                         !.advanced = Len(aiCars)]
                 /\ UNCHANGED <<calls, twin>>
        ELSE /\ game' = [game EXCEPT !.lastTimeSet = TRUE,
                                     !.frameState = game.state,
                                     !.elapsed = elapsed,
                                     !.advanced = 0]
             /\ UNCHANGED <<aiCars, ev, calls, twin>>

LoopNext == Frame \/ StartGame \/ TogglePause \/ GameOver \/ ReturnToMenu

LoopSpec == LoopInit /\ [][LoopNext]_vars

(***************************************************************************)
(* One AICar and a caller that breaks the contract: a lane index outside   *)
(* 0..2 passed to the constructor, a negative dt passed to update()        *)
(***************************************************************************)
BreachLanes == {0 - 1, 0, 1, 2, 3}
BreachDts == {0 - 50, 50}
BreachSpeeds == {200}
BreachYs == {54000}

\* laneCenters[lane] for a lane index outside the array
Undefined == "undefined"

\* new AICar(lane, y, laneCenters) for any lane index: the constructor stores
\* lane as passed
NewAICar(id, lane, y, aggression, reactionTime) ==
    IF lane \in Lanes THEN AICar(id, lane, y, aggression, reactionTime)
    ELSE [AICar(id, 0, y, aggression, reactionTime)
             EXCEPT !.lane = lane, !.targetLane = lane, !.x = Undefined]

BreachInit ==
    /\ \E lane \in BreachLanes, y \in BreachYs, p \in Personalities :
           aiCars = <<NewAICar(1, lane, y, p.aggression, p.reactionTime)>>
    /\ ev = <<[NoEvent EXCEPT !.gateTarget = aiCars[1].targetLane,
                              !.startLane = aiCars[1].lane]>>
    /\ calls = 0
    /\ game = NoGame
    /\ twin = NoTwin

\* update() with a dt of either sign, on an agent whose x is a number (one
\* built with a lane index inside the array)
BreachUpdate ==
    /\ aiCars[1].lane \in Lanes
    /\ calls < MaxCalls
    /\ calls' = calls + 1
    /\ UpdateCall(BreachDts, BreachSpeeds)
    /\ UNCHANGED world

BreachNext == BreachUpdate

BreachSpec == BreachInit /\ [][BreachNext]_vars

(***************************************************************************)
(* One AICar updated at frame rate while gameSpeed varies, with the        *)
(* history of its think cycles: game.sinceThink is the simulated time      *)
(* since the latest think cycle, game.lastReaction the reactionTime that   *)
(* cycle installed, game.gap and game.prevReaction the time between the    *)
(* two latest cycles and the reactionTime installed by the earlier one,    *)
(* game.cycles the think cycles so far (counted to 2), game.drawn the      *)
(* personality drawn by the constructor                                    *)
(***************************************************************************)
GateDts == {0, FRAME_DT_MAX}
GateSpeeds == {200, 600}
GateYs == {54000}
GatePersonalities == {[aggression |-> 60, reactionTime |-> 100],
                      [aggression |-> 90, reactionTime |-> 0]}

GateInit ==
    /\ \E lane \in Lanes, y \in GateYs, p \in GatePersonalities :
           /\ aiCars = <<AICar(1, lane, y, p.aggression, p.reactionTime)>>
           /\ game = [state |-> "PLAYING", sinceThink |-> 0, lastReaction |-> 0,
                      gap |-> 0, prevReaction |-> 0, cycles |-> 0, drawn |-> p]
    /\ ev = <<[NoEvent EXCEPT !.gateTarget = aiCars[1].targetLane,
                              !.startLane = aiCars[1].lane]>>
    /\ calls = 0
    /\ twin = NoTwin

\* one update(dt, gameSpeed, ...) and what it adds to the history
GateUpdate ==
    /\ calls < MaxCalls
    /\ calls' = calls + 1
    /\ \E dt \in GateDts :
           /\ UpdateCall({dt}, GateSpeeds)
           /\ game' = IF ev'[1].think
                      THEN [game EXCEPT !.sinceThink = 0,
                                        !.lastReaction = aiCars'[1].reactionTime,
                                        !.gap = game.sinceThink + dt,
                                        !.prevReaction = game.lastReaction,
                                        !.cycles = Min(game.cycles + 1, 2)]
                      ELSE [game EXCEPT !.sinceThink = game.sinceThink + dt]
    /\ UNCHANGED twin

GateNext == GateUpdate

GateSpec == GateInit /\ [][GateNext]_vars

(***************************************************************************)
(* One aggressive AICar beside the player on a quiet road, updated at      *)
(* frame rate for as long as it takes the block cooldown to run out;       *)
(* game.entries counts its entries into BLOCK (to 2)                       *)
(***************************************************************************)
BlockDts == {FRAME_DT_MAX}
BlockSpeeds == {200}
BlockPersonalities == {[aggression |-> 90, reactionTime |-> 100]}

BlockInit ==
    /\ \E lane \in Lanes, p \in BlockPersonalities :
           aiCars = <<AICar(1, lane, PLAYER_Y, p.aggression, p.reactionTime)>>
    /\ ev = <<[NoEvent EXCEPT !.gateTarget = aiCars[1].targetLane,
                              !.startLane = aiCars[1].lane]>>
    /\ calls = 0
    /\ game = [state |-> "PLAYING", entries |-> 0]
    /\ twin = NoTwin

\* update(dt, gameSpeed, player, [], [this]) with the player in any lane
BlockUpdate ==
    /\ \E dt \in BlockDts, gameSpeed \in BlockSpeeds, pl \in Lanes :
       LET a == aiCars[1] IN
       \E draw \in (IF TooFarBehind(a, PlayerAt(pl)) THEN Draws ELSE {NoDraw}) :
       \E b \in {BeforeGate(a, dt, gameSpeed, PlayerAt(pl), draw)} :
       \E c \in {AfterGate(b, dt, gameSpeed, PlayerAt(pl), <<>>, <<AsPeer(b)>>)} :
           /\ InRange(c)
           /\ aiCars' = <<c>>
           /\ ev' = <<UpdateEvent(ev[1], a, b, c, dt, PlayerAt(pl), <<>>, TRUE,
                                  <<AsPeer(b)>>)>>
    /\ game' = [game EXCEPT !.entries = IF ev'[1].planner = "block"
                                        THEN Min(game.entries + 1, 2)
                                        ELSE game.entries]
    /\ UNCHANGED <<calls, twin>>

BlockNext == BlockUpdate

BlockSpec == BlockInit /\ [][BlockNext]_vars

\* the same agent, with reactionTime 0 or 0.1, under a caller that passes
\* the dt of a frame or a dt of 1.3 s
DisplaceDts == {FRAME_DT_MAX, 1300}
DisplacePersonalities == {[aggression |-> 90, reactionTime |-> 0],
                          [aggression |-> 90, reactionTime |-> 100]}

DisplaceInit ==
    /\ \E lane \in Lanes, p \in DisplacePersonalities :
           aiCars = <<AICar(1, lane, PLAYER_Y, p.aggression, p.reactionTime)>>
    /\ ev = <<[NoEvent EXCEPT !.gateTarget = aiCars[1].targetLane,
                              !.startLane = aiCars[1].lane]>>
    /\ calls = 0
    /\ game = NoGame
    /\ twin = NoTwin

\* update(dt, gameSpeed, player, [], [this]) with the player in any lane
DisplaceUpdate ==
    /\ calls < MaxCalls
    /\ calls' = calls + 1
    /\ \E dt \in DisplaceDts, gameSpeed \in BlockSpeeds, pl \in Lanes :
       LET a == aiCars[1] IN
       \E draw \in (IF TooFarBehind(a, PlayerAt(pl)) THEN Draws ELSE {NoDraw}) :
       \E b \in {BeforeGate(a, dt, gameSpeed, PlayerAt(pl), draw)} :
       \E c \in {AfterGate(b, dt, gameSpeed, PlayerAt(pl), <<>>, <<AsPeer(b)>>)} :
           /\ InRange(c)
           /\ aiCars' = <<c>>
           /\ ev' = <<UpdateEvent(ev[1], a, b, c, dt, PlayerAt(pl), <<>>, TRUE,
                                  <<AsPeer(b)>>)>>
    /\ UNCHANGED world

DisplaceNext == DisplaceUpdate

DisplaceSpec == DisplaceInit /\ [][DisplaceNext]_vars

\* ---------------------------------------------------------------------
\* One agent 200 px ahead of the player, where the regulator leaves it in
\* place, dodging the hazards an arbitrary caller passes; the caller never
\* stops calling update with dt > 0
\* ---------------------------------------------------------------------
TransitDts == {0, FRAME_DT_MAX}
TransitSpeeds == {200}
TransitYs == {80000}
TransitPersonalities == {[aggression |-> 50, reactionTime |-> 100]}

TransitInit ==
    /\ \E lane \in Lanes, y \in TransitYs, p \in TransitPersonalities :
           aiCars = <<AICar(1, lane, y, p.aggression, p.reactionTime)>>
    /\ ev = <<[NoEvent EXCEPT !.gateTarget = aiCars[1].targetLane,
                              !.startLane = aiCars[1].lane]>>
    /\ calls = 0
    /\ game = NoGame
    /\ twin = NoTwin

\* update(dt, gameSpeed, player, obstacles, peers)
TransitUpdate ==
    /\ UpdateCall(TransitDts, TransitSpeeds)
    /\ UNCHANGED <<calls, world>>

\* update with dt > 0
TransitPositiveUpdate ==
    /\ UpdateCall(TransitDts \ {0}, TransitSpeeds)
    /\ UNCHANGED <<calls, world>>

TransitNext == TransitUpdate

TransitSpec == TransitInit /\ [][TransitNext]_vars /\ WF_vars(TransitPositiveUpdate)

\* ---------------------------------------------------------------------
\* Agents whose aggression sits on the thresholds 0.65 and 0.82 of _think,
\* created 60 px behind the player or level with it and updated by an
\* arbitrary caller
\* ---------------------------------------------------------------------
ReachDts == {0, 200}
ReachSpeeds == {200}
ReachYs == {54000, 60000}
ReachPersonalities == {[aggression |-> 65, reactionTime |-> 0],
                       [aggression |-> 82, reactionTime |-> 0]}

ReachInit ==
    /\ \E lane \in Lanes, y \in ReachYs, p \in ReachPersonalities :
           aiCars = <<AICar(1, lane, y, p.aggression, p.reactionTime)>>
    /\ ev = <<[NoEvent EXCEPT !.gateTarget = aiCars[1].targetLane,
                              !.startLane = aiCars[1].lane]>>
    /\ calls = 0
    /\ game = [state |-> "PLAYING", playerLane |-> 1, occupied |-> {}]
    /\ twin = NoTwin

\* one update(dt, gameSpeed, player, obstacles, peers); game keeps the
\* player's lane and the lanes _laneOccupied reported taken when the think
\* cycle called _planOvertake
ReachUpdate ==
    /\ calls < MaxCalls
    /\ calls' = calls + 1
    /\ \E dt \in ReachDts, gameSpeed \in ReachSpeeds :
       LET a == aiCars[1] IN
       \E draw \in (IF TooFarBehind(a, PlayerAt(1)) THEN Draws ELSE {NoDraw}) :
       \E b \in {BeforeGate(a, dt, gameSpeed, PlayerAt(1), draw)} :
       LET thinks == b.reactionTimer <= 0 IN
       \E obstacles \in (IF thinks THEN ObstacleSets(b) ELSE {<<>>}) :
       \E planner \in {IF thinks THEN Planner(b, PlayerAt(1), obstacles) ELSE "none"} :
       \E pl \in (IF planner \in {"block", "overtake"} THEN Lanes ELSE {1}) :
       \E peers \in (IF planner # "none" THEN PeerRosters(b, {5000})
                     ELSE {<<AsPeer(b)>>}) :
       \E c \in {AfterGate(b, dt, gameSpeed, PlayerAt(pl), obstacles, peers)} :
           /\ InRange(c)
           /\ aiCars' = <<c>>
           /\ ev' = <<UpdateEvent(ev[1], a, b, c, dt, PlayerAt(pl), obstacles, TRUE,
                                  peers)>>
           /\ game' = [game EXCEPT
                  !.playerLane = pl,
                  !.occupied = IF planner = "overtake"
                               THEN {l \in Lanes : LaneOccupied(b, l, peers)}
                               ELSE {}]
    /\ UNCHANGED twin

ReachNext == ReachUpdate

ReachSpec == ReachInit /\ [][ReachNext]_vars

(***************************************************************************)
(* Passive traffic (game.js, class TrafficCar) in two games that differ    *)
(* only in the player: the traffic pass of Game._update runs in both with  *)
(* the same dt and the same Math.random() draws                            *)
(***************************************************************************)
MaxTrafficTicks == 2    \* traffic passes of one pair of games

\* TRAFFIC_TYPES: w, h and scrollFactor in percent
TRAFFIC_TYPES == [SEDAN |-> [w |-> 3200, h |-> 5000, scrollFactor |-> 50],
                  SUV   |-> [w |-> 3600, h |-> 5400, scrollFactor |-> 38],
                  TRUCK |-> [w |-> 3800, h |-> 6600, scrollFactor |-> 28]]

\* new TrafficCar(x, y) whose type draw gave type, with laneChangeTimer
\* counted down to timer
TrafficCar(id, x, y, type, timer) ==
    [id |-> id, x |-> x, y |-> y,
     width |-> TRAFFIC_TYPES[type].w, height |-> TRAFFIC_TYPES[type].h,
     targetX |-> x, laneChangeTimer |-> timer,
     scrollFactor |-> TRAFFIC_TYPES[type].scrollFactor]
\* the free lanes of TrafficCar.update testing only where a peer sits
TrafficFreeByPosition(tc, peers) ==
    SelectSeq(LANE_CENTERS, LAMBDA lx :
        ~\E k \in 1..Len(peers) :
            /\ peers[k].id # tc.id
            /\ Abs(peers[k].y - tc.y) < 9000
            /\ Abs(peers[k].x - lx) < 4000)

\* free of TrafficCar.update: the lane centers no other traffic car within
\* 90 px in y sits on or heads for
TrafficFree(tc, peers) ==
    SelectSeq(LANE_CENTERS, LAMBDA lx :
        ~\E k \in 1..Len(peers) :
            /\ peers[k].id # tc.id
            /\ Abs(peers[k].y - tc.y) < 9000
            /\ (Abs(peers[k].x - lx) < 4000 \/ Abs(peers[k].targetX - lx) < 4000))

\* TrafficCar.update(dt, peers); draw.pick is the Math.random() of the lane
\* choice in 1/1000, draw.delay the random part of the next timer
TrafficCarUpdate(tc, dt, peers, draw) ==
    LET timer   == tc.laneChangeTimer - dt
        free    == TrafficFree(tc, peers)
        targetX == IF timer <= 0 /\ Len(free) > 0
                   THEN free[(draw.pick * Len(free)) \div 1000 + 1]
                   ELSE tc.targetX
        dx      == targetX - tc.x
    IN  [tc EXCEPT !.laneChangeTimer = IF timer <= 0 THEN 3000 + draw.delay ELSE timer,
                   !.targetX = targetX,
                   !.x = tc.x + Sign(dx) * Min(Abs(dx), 16 * dt)]

\* TrafficCar.scroll moving the car up the screen
TrafficCarScrollUp(tc, amount) ==
    [tc EXCEPT !.y = tc.y - (amount * tc.scrollFactor) \div 100]

\* TrafficCar.scroll(amount)
TrafficCarScroll(tc, amount) ==
    [tc EXCEPT !.y = tc.y + (amount * tc.scrollFactor) \div 100]

\* a game whose peers argument also holds the player's car
TrafficPeersAndPlayer(run) ==
    IF run.player.present
    THEN Append(run.cars, [id |-> 0, x |-> run.player.x, y |-> run.player.y,
                           targetX |-> run.player.x])
    ELSE run.cars

\* the peers argument of tc.update(dt, this.trafficCars)
TrafficPeers(run) == run.cars

\* the traffic loop of Game._update after its first n cars: each is updated
\* against the live roster, then scrolled
RECURSIVE TrafficPrefix(_, _, _, _, _)
TrafficPrefix(run, n, dt, scroll, draws) ==
    IF n = 0 THEN run
    ELSE LET r == TrafficPrefix(run, n - 1, dt, scroll, draws) IN
         [r EXCEPT !.cars[n] =
             TrafficCarScroll(TrafficCarUpdate(r.cars[n], dt, TrafficPeers(r), draws[n]),
                              scroll)]

\* scrollSpeed * dt of a game: the player's brake and nitro set scrollSpeed
RunScroll(run, dt, gameSpeed) == ScrollOf(gameSpeed, dt, run.player.percent)

\* the traffic loop and the filter that drops cars below the screen
TrafficPass(run, dt, gameSpeed, draws) ==
    LET r == TrafficPrefix(run, Len(run.cars), dt, RunScroll(run, dt, gameSpeed), draws)
    IN  [r EXCEPT !.cars = SelectSeq(r.cars, LAMBDA tc : tc.y < CANVAS_H + 10000)]

\* what TrafficCar.update decides and moves
Lateral(tc) == [x |-> tc.x, targetX |-> tc.targetX, laneChangeTimer |-> tc.laneChangeTimer]

\* the player of a game: its car, its lives and, as percent, scrollSpeed over
\* gameSpeed (45 braking, 160 on nitro); or no player at all
Player(l, lives, percent) ==
    [present |-> TRUE, x |-> Center(l), y |-> PLAYER_Y, lane |-> l, lives |-> lives,
     percent |-> percent]
NoPlayer ==
    [present |-> FALSE, x |-> 0, y |-> 0, lane |-> 0, lives |-> 0, percent |-> 100]
TwinPlayers == {Player(0, 1, 100), Player(2, 3, 45), Player(1, 2, 160), NoPlayer}

TrafficDts == {0, FRAME_DT_MAX}
TrafficSpeeds == {200}
TrafficDraws == [pick : {0, 500, 999}, delay : {0}]
TrafficTimers == {50, 100, 2000}
\* y of the later car: near the top, beside the player, near the bottom edge
TrafficYs == {2000, 56000, 73000}

\* a truck and, spawned after it and 88 px above it, a sedan
TwinRosters ==
    {<<TrafficCar(1, Center(l1), y + 8800, "TRUCK", t1),
       TrafficCar(2, Center(l2), y, "SEDAN", t2)>> :
        l1 \in Lanes, l2 \in Lanes, y \in TrafficYs, t1 \in TrafficTimers,
        t2 \in TrafficTimers}

\* the record of one tc.update() in the two games: sameRoster, this.trafficCars
\* was equal in both when the call was made; sameLateral, the call left the
\* car with equal x, _targetX and _laneChangeTimer in both; retargets, the
\* timer ran out in the call; differ, the games' players differ
TwinCall(A, B, n, dt, gameSpeed, draws) ==
    LET aligned == Len(A.cars) = Len(B.cars)
        a == TrafficPrefix(A, n - 1, dt, RunScroll(A, dt, gameSpeed), draws)
        b == IF aligned
             THEN TrafficPrefix(B, n - 1, dt, RunScroll(B, dt, gameSpeed), draws)
             ELSE B
    IN  [sameRoster  |-> aligned /\ a.cars = b.cars,
         sameLateral |-> /\ aligned
                         /\ Lateral(TrafficCarUpdate(a.cars[n], dt, TrafficPeers(a), draws[n]))
                            = Lateral(TrafficCarUpdate(b.cars[n], dt, TrafficPeers(b), draws[n])),
         retargets   |-> a.cars[n].laneChangeTimer - dt <= 0,
         moves       |-> a.cars[n].x # a.cars[n].targetX,
         differ      |-> A.player # B.player]

TwinInit ==
    /\ \E cars \in TwinRosters, pB \in TwinPlayers :
           twin = [A |-> [player |-> Player(1, 3, 100), cars |-> cars],
                   B |-> [player |-> pB, cars |-> cars],
                   log |-> <<>>]
    /\ aiCars = <<>>
    /\ ev = <<>>
    /\ calls = 0
    /\ game = NoGame

\* one traffic pass in both games
TrafficTick ==
    /\ calls < MaxTrafficTicks
    /\ calls' = calls + 1
    /\ \E dt \in TrafficDts, gameSpeed \in TrafficSpeeds,
          draws \in [1..Max(Len(twin.A.cars), Len(twin.B.cars)) -> TrafficDraws] :
           twin' = [A   |-> TrafficPass(twin.A, dt, gameSpeed, draws),
                    B   |-> TrafficPass(twin.B, dt, gameSpeed, draws),
                    log |-> [n \in 1..Len(twin.A.cars) |->
                                TwinCall(twin.A, twin.B, n, dt, gameSpeed, draws)]]
    /\ UNCHANGED <<aiCars, ev, game>>

TrafficNext == TrafficTick

TrafficSpec == TwinInit /\ [][TrafficNext]_vars

(***************************************************************************)
(* The traffic pass of a game that stays in PLAYING, from two cars in the  *)
(* lower part of the screen until the roster is empty; game.gone holds     *)
(* the cars the last tick's filter dropped.  requestAnimationFrame keeps   *)
(* calling Game._loop, so ticks of dt > 0 keep coming.                     *)
(***************************************************************************)
LifePlayers == {Player(1, 3, 45), Player(1, 3, 160)}
LifeTimers == {50, 2000}
LifeYs == {70000}
LifeRosters ==
    {<<TrafficCar(1, Center(l1), y + 8800, "TRUCK", t1),
       TrafficCar(2, Center(1), y, "SEDAN", t2)>> :
        l1 \in Lanes, y \in LifeYs, t1 \in LifeTimers, t2 \in LifeTimers}

LifeInit ==
    /\ \E cars \in LifeRosters, player \in LifePlayers :
           game = [state |-> "PLAYING", player |-> player, cars |-> cars, gone |-> {}]
    /\ aiCars = <<>>
    /\ ev = <<>>
    /\ calls = 0
    /\ twin = NoTwin

\* the traffic loop and filter of Game._update(dt), dt from dts
LifePass(dts) ==
    /\ Playing(game)
    /\ \E dt \in dts, gameSpeed \in TrafficSpeeds,
          draws \in [1..Len(game.cars) -> TrafficDraws] :
       \E r \in {TrafficPrefix(game, Len(game.cars), dt,
                               RunScroll(game, dt, gameSpeed), draws)} :
       \E kept \in {SelectSeq(r.cars, LAMBDA tc : tc.y < CANVAS_H + 10000)} :
           game' = [game EXCEPT
                       !.cars = kept,
                       !.gone = {[id |-> r.cars[n].id, y |-> r.cars[n].y] :
                                    n \in {k \in 1..Len(r.cars) :
                                              r.cars[k].y >= CANVAS_H + 10000}}]
    /\ UNCHANGED <<aiCars, ev, calls, twin>>

LifeTick == LifePass(TrafficDts)

\* a tick with dt > 0
LifePositiveTick == LifePass(TrafficDts \ {0})

LifeNext == LifeTick

LifeSpec == LifeInit /\ [][LifeNext]_vars /\ WF_vars(LifePositiveTick)

(***************************************************************************)
(* The Game object under its events: completion of start()'s sdk.init(),   *)
(* key presses, taps and frames.  A handler runs together with the         *)
(* microtasks it queues: audio.init() has no timer or I/O behind its       *)
(* awaits, so the continuation of _startGame runs before the next event.   *)
(* Whether a frame's collision test finds an overlap is the road's choice. *)
(* game.last records the latest event: the state it found, the lives it    *)
(* found, whether it ran _update, whether it built a new PlayerCar.        *)
(***************************************************************************)
PLAYER_LIVES == 3
INVINCIBLE_DURATION == 2000
KeyCodes == {"Space", "Enter", "Escape", "KeyP", "ArrowLeft"}
GameDts == {0, FRAME_DT_MAX}

\* new PlayerCar()
PlayerCar == [lives |-> PLAYER_LIVES, invincibleTimer |-> 0]

\* new SynthwaveAudio(); init is the fate of _initPromise, timers counts the
\* interval timers that are set and not cleared
SynthwaveAudio == [init |-> "none", ctx |-> FALSE, started |-> FALSE,
                   schedulerTimer |-> FALSE, timers |-> 0]

\* audio.init() and the microtasks of _doInit; available tells whether the
\* browser provides an AudioContext
AudioInit(au, available) ==
    IF au.init # "none" THEN au
    ELSE IF available THEN [au EXCEPT !.init = "done", !.ctx = TRUE]
    ELSE [au EXCEPT !.init = "failed"]

\* audio.stop() leaving _started set
AudioStopKeepsFlag(au) ==
    [au EXCEPT !.timers = IF au.schedulerTimer THEN au.timers - 1 ELSE au.timers,
               !.schedulerTimer = FALSE]

\* audio.start()
AudioStart(au) ==
    IF ~au.ctx \/ au.started THEN au
    ELSE [au EXCEPT !.started = TRUE, !.schedulerTimer = TRUE,
                    !.timers = au.timers + 1]

\* audio.stop(): clearInterval of a null handle clears nothing
AudioStop(au) ==
    [au EXCEPT !.timers = IF au.schedulerTimer THEN au.timers - 1 ELSE au.timers,
               !.schedulerTimer = FALSE,
               !.started = FALSE]

\* audio.resume()
AudioResume(au) == IF ~au.started THEN AudioStart(au) ELSE au

\* _triggerAudioInit()
TriggerAudioInit(g, available) == [g EXCEPT !.audio = AudioInit(g.audio, available)]

\* _startGame(): nothing after the await runs when audio.init() rejects
StartGameNow(g) ==
    IF g.audio.init # "done" THEN g
    ELSE [g EXCEPT !.player = PlayerCar,
                   !.state = "PLAYING",
                   !.audio = AudioStart(g.audio),
                   !.last.newPlayer = TRUE]

\* _togglePause()
TogglePauseNow(g) ==
    IF g.state = "PLAYING"
    THEN [g EXCEPT !.state = "PAUSED", !.audio = AudioStop(g.audio)]
    ELSE IF g.state = "PAUSED"
    THEN [g EXCEPT !.state = "PLAYING", !.audio = AudioResume(g.audio)]
    ELSE g

\* _gameOver()
GameOverNow(g) == [g EXCEPT !.state = "GAME_OVER", !.audio = AudioStop(g.audio)]

\* _returnToMenu()
ReturnToMenuNow(g) == [g EXCEPT !.audio = AudioStop(g.audio), !.state = "MENU"]

\* _onKey restarting the game straight from the game-over screen
OnKeyRestarting(g0, code, available) ==
    LET g == TriggerAudioInit(g0, available) IN
    IF g.state \in {"MENU", "GAME_OVER"}
    THEN IF code \in {"Space", "Enter"} THEN StartGameNow(g) ELSE g
    ELSE IF g.state = "PLAYING"
    THEN IF code \in {"Escape", "KeyP"} THEN TogglePauseNow(g) ELSE g
    ELSE IF g.state = "PAUSED"
    THEN IF code \in {"Escape", "KeyP", "Space"} THEN TogglePauseNow(g) ELSE g
    ELSE g

\* _onKey(code)
OnKey(g0, code, available) ==
    LET g == TriggerAudioInit(g0, available) IN
    IF g.state = "MENU"
    THEN IF code \in {"Space", "Enter"} THEN StartGameNow(g) ELSE g
    ELSE IF g.state = "GAME_OVER"
    THEN IF code \in {"Space", "Enter"} THEN ReturnToMenuNow(g) ELSE g
    ELSE IF g.state = "PLAYING"
    THEN IF code \in {"Escape", "KeyP"} THEN TogglePauseNow(g) ELSE g
    ELSE IF g.state = "PAUSED"
    THEN IF code \in {"Escape", "KeyP", "Space"} THEN TogglePauseNow(g) ELSE g
    ELSE g

\* _onTap()
OnTap(g0, available) ==
    LET g == TriggerAudioInit(g0, available) IN
    IF g.state = "MENU" THEN StartGameNow(g)
    ELSE IF g.state = "GAME_OVER" THEN ReturnToMenuNow(g)
    ELSE IF g.state = "PAUSED" THEN TogglePauseNow(g)
    ELSE g

\* PlayerCar.update(dt, ...): the invincibility countdown
PlayerUpdate(pc, dt) ==
    [pc EXCEPT !.invincibleTimer = IF pc.invincibleTimer > 0
                                   THEN pc.invincibleTimer - dt
                                   ELSE pc.invincibleTimer]

\* _onHit() that leaves the game running when the last life is lost
OnHitKeepsPlaying(g) ==
    IF g.player.invincibleTimer > 0 THEN g
    ELSE [g EXCEPT !.player.lives = g.player.lives - 1,
                   !.player.invincibleTimer = INVINCIBLE_DURATION]

\* _onHit(): PlayerCar.hit(), then _gameOver() when no life is left
OnHit(g) ==
    IF g.player.invincibleTimer > 0 THEN g
    ELSE LET h == [g EXCEPT !.player.lives = g.player.lives - 1,
                            !.player.invincibleTimer = INVINCIBLE_DURATION]
         IN  IF h.player.lives <= 0 THEN GameOverNow(h) ELSE h

\* _checkCollisions(); overlap tells whether some car overlaps the player
CheckCollisions(g, overlap) ==
    IF g.player.invincibleTimer > 0 THEN g
    ELSE IF overlap THEN OnHit(g) ELSE g

\* the part of _update(dt) that concerns the player's lives
UpdateLives(g, dt, overlap) ==
    CheckCollisions([g EXCEPT !.player = PlayerUpdate(g.player, dt)], overlap)

\* what an event notes before it runs
Noted(g, event) ==
    [g EXCEPT !.last = [event |-> event, from |-> g.state, lives |-> g.player.lives,
                        updated |-> FALSE, newPlayer |-> FALSE]]

\* new Game(canvas) followed by start(), up to its await
GameInit ==
    /\ game = [state |-> "LOADING", sdkDone |-> FALSE, player |-> PlayerCar,
               audio |-> SynthwaveAudio,
               last |-> [event |-> "new", from |-> "LOADING", lives |-> PLAYER_LIVES,
                         updated |-> FALSE, newPlayer |-> TRUE]]
    /\ aiCars = <<>>
    /\ ev = <<>>
    /\ calls = 0
    /\ twin = NoTwin

\* the continuation of start() once sdk.init() has settled
SdkInitDone ==
    /\ ~game.sdkDone
    /\ game' = [Noted(game, "sdk") EXCEPT !.sdkDone = TRUE, !.state = "MENU"]
    /\ UNCHANGED <<aiCars, ev, calls, twin>>

\* a keydown of a key that was up
KeyDown ==
    /\ \E code \in KeyCodes, available \in BOOLEAN :
           game' = OnKey(Noted(game, "key"), code, available)
    /\ UNCHANGED <<aiCars, ev, calls, twin>>

\* a touch that ends within 30 px of where it began
Tap ==
    /\ \E available \in BOOLEAN : game' = OnTap(Noted(game, "tap"), available)
    /\ UNCHANGED <<aiCars, ev, calls, twin>>

\* _loop(ts)
GameFrame ==
    /\ \E dt \in GameDts, overlap \in BOOLEAN :
           game' = IF Playing(game)
                   THEN UpdateLives([Noted(game, "frame") EXCEPT !.last.updated = TRUE],
                                    dt, overlap)
                   ELSE Noted(game, "frame")
    /\ UNCHANGED <<aiCars, ev, calls, twin>>

GameNext == SdkInitDone \/ KeyDown \/ Tap \/ GameFrame

GameSpec == GameInit /\ [][GameNext]_vars

(***************************************************************************)
(* The score of a game and its way to the SDK: _update adds the points of  *)
(* the clock and of the overtakes to score and to the buffer _sdkPoints,   *)
(* hands the buffer to sdk.addPoints, and savePoints is called by the      *)
(* auto-save, by _gameOver and by the beforeunload listener.  The agents   *)
(* are those of _spawnAI under the AI pass; ArrowUp is held for a whole    *)
(* game or not at all.  Points are whole, _scoreAccum is in 1/1000 point.  *)
(* game.passed sums what sdk.addPoints has been given in this game;        *)
(* game.last records the latest savePoints call of this game: who called,  *)
(* the buffer at that moment, and score - passed at that moment;           *)
(* game.discarded is the buffer that the latest _startGame overwrote.      *)
(***************************************************************************)
POINTS_PER_SECOND == 1
POINTS_PER_OVERTAKE == 10
AUTO_SAVE_INTERVAL == 15000
MaxScoreTime == 15500    \* _totalTime is not advanced beyond this, in ms
ScoreDts == {FRAME_DT_MAX}

NoSave == [by |-> "none", pending |-> 0, unsent |-> 0]

\* a call of sdk.savePoints() by caller by
SavePoints(g, by) ==
    [g EXCEPT !.last = [by |-> by, pending |-> g.sdkPoints, unsent |-> g.score - g.passed]]

\* _update handing the buffer over before the points of this tick are in it
ScoreClockFlushFirst(g, dt) ==
    LET f == IF g.sdkPoints > 0
             THEN [g EXCEPT !.passed = g.passed + g.sdkPoints, !.sdkPoints = 0]
             ELSE g
        accum == f.scoreAccum
                   + (POINTS_PER_SECOND * dt * (IF f.nitroActive THEN 15 ELSE 10)) \div 10
        pts == accum \div 1000
    IN  IF accum >= 1000
        THEN [f EXCEPT !.scoreAccum = accum - pts * 1000,
                       !.score = f.score + pts,
                       !.sdkPoints = f.sdkPoints + pts]
        ELSE [f EXCEPT !.scoreAccum = accum]

\* _update: the points of the clock, then the buffer handed to sdk.addPoints
ScoreClock(g, dt) ==
    LET accum == g.scoreAccum
                   + (POINTS_PER_SECOND * dt * (IF g.nitroActive THEN 15 ELSE 10)) \div 10
        pts == accum \div 1000
        a == IF accum >= 1000
             THEN [g EXCEPT !.scoreAccum = accum - pts * 1000,
                            !.score = g.score + pts,
                            !.sdkPoints = g.sdkPoints + pts]
             ELSE [g EXCEPT !.scoreAccum = accum]
    IN  IF a.sdkPoints > 0
        THEN [a EXCEPT !.passed = a.passed + a.sdkPoints, !.sdkPoints = 0]
        ELSE a

\* _update: the auto-save
AutoSave(g, dt) ==
    LET t == g.autoSaveTimer + dt
    IN  IF t >= AUTO_SAVE_INTERVAL
        THEN SavePoints([g EXCEPT !.autoSaveTimer = 0], "auto")
        ELSE [g EXCEPT !.autoSaveTimer = t]

\* the awards of _checkOvertakes for n agents that passed the player
ScoreOvertakes(g, n) ==
    [g EXCEPT !.score = g.score + n * POINTS_PER_OVERTAKE,
              !.sdkPoints = g.sdkPoints + n * POINTS_PER_OVERTAKE]

\* _checkCollisions, _onHit and _gameOver with its savePoints
ScoreCollisions(g, overlap) ==
    IF g.player.invincibleTimer > 0 \/ ~overlap THEN g
    ELSE LET h == [g EXCEPT !.player.lives = g.player.lives - 1,
                            !.player.invincibleTimer = INVINCIBLE_DURATION]
         IN  IF h.player.lives <= 0
             THEN SavePoints([h EXCEPT !.state = "GAME_OVER"], "over")
             ELSE h

\* Game after its constructor and start(): the menu
ScoreInit ==
    /\ game = [state |-> "MENU", unloaded |-> FALSE, keyUp |-> FALSE, nitroActive |-> FALSE,
               totalTime |-> 0, scoreAccum |-> 0, score |-> 0, sdkPoints |-> 0,
               autoSaveTimer |-> 0, player |-> PlayerCar, passed |-> 0,
               last |-> NoSave, discarded |-> 0]
    /\ aiCars = <<>>
    /\ ev = <<>>
    /\ calls = 0
    /\ twin = NoTwin

\* _startGame() from the menu, ArrowUp held from now on or not
ScoreStart ==
    /\ ~game.unloaded
    /\ game.state = "MENU"
    /\ \E lanes \in [1..NumAI -> LoopSpawnLanes], ps \in [1..NumAI -> PassPersonalities] :
           aiCars' = [i \in 1..NumAI |->
                         AICar(i, lanes[i], SpawnY(i), ps[i].aggression, ps[i].reactionTime)]
    /\ ev' = [i \in 1..NumAI |-> [NoEvent EXCEPT !.gateTarget = aiCars'[i].targetLane,
                                                 !.startLane = aiCars'[i].lane]]
    /\ \E keyUp \in BOOLEAN :
           game' = [game EXCEPT !.state = "PLAYING", !.keyUp = keyUp, !.nitroActive = FALSE,
                                !.totalTime = 0, !.scoreAccum = 0, !.score = 0,
                                !.sdkPoints = 0, !.autoSaveTimer = 0,
                                !.player = PlayerCar, !.passed = 0, !.last = NoSave,
                                !.discarded = game.sdkPoints]
    /\ UNCHANGED <<calls, twin>>

\* _loop(ts) of a game that is PLAYING: _update(dt)
ScoreFrame ==
    /\ ~game.unloaded
    /\ Playing(game)
    /\ \E dt \in ScoreDts, overlap \in BOOLEAN :
       \E totalTime \in {game.totalTime + dt} :
       \E saved \in {AutoSave(ScoreClock([game EXCEPT !.totalTime = totalTime], dt), dt)} :
           /\ totalTime <= MaxScoreTime
           /\ AIPassOn(dt, GameSpeedAt(totalTime),
                       {IF game.nitroActive THEN 160 ELSE 100}, {<<>>},
                       DrawsIn(aiCars, PlayerAt(1), LoopRespawnLanes, QuietOffsets))
           /\ game' = ScoreCollisions(
                          ScoreOvertakes(
                              [saved EXCEPT !.player = PlayerUpdate(saved.player, dt),
                                            !.nitroActive = saved.keyUp],
                              Cardinality({i \in 1..Len(aiCars) : ev'[i].awarded})),
                          overlap)
    /\ UNCHANGED <<calls, twin>>

\* _returnToMenu() from the game-over screen
ScoreReturn ==
    /\ ~game.unloaded
    /\ game.state = "GAME_OVER"
    /\ game' = [game EXCEPT !.state = "MENU"]
    /\ UNCHANGED <<aiCars, ev, calls, twin>>

\* the beforeunload listener, when the page is left
ScoreUnload ==
    /\ ~game.unloaded
    /\ game' = [SavePoints(game, "unload") EXCEPT !.unloaded = TRUE]
    /\ UNCHANGED <<aiCars, ev, calls, twin>>

ScoreNext == ScoreStart \/ ScoreFrame \/ ScoreReturn \/ ScoreUnload

ScoreSpec == ScoreInit /\ [][ScoreNext]_vars

(***************************************************************************)
(* The music scheduler of SynthwaveAudio on an initialised AudioContext:   *)
(* start(), stop(), resume(), the interval timer's callback _schedule(),   *)
(* and the audio clock ctx.currentTime, which moves between callbacks.     *)
(* Times are in ms, frequencies in 1/10 Hz, note lengths in half beats.    *)
(* game.count is the number of _scheduleBeat calls since the latest        *)
(* start(), game.first the time given to the first of them, game.log the   *)
(* calls made by the latest _schedule(), game.op the latest operation.     *)
(***************************************************************************)
BEAT_DURATION == 500
LOOKAHEAD == 120
START_DELAY == 50
PATTERN_BEATS == 32
MaxAudioTime == 17500    \* ctx.currentTime is not advanced beyond this, in ms
MaxLate == 1000          \* the callback fires before the clock is this far past a beat, in ms
ClockSteps == {100, 700}

bassPattern ==
    <<925, 0, 925, 0, 925, 0, 1100, 925, 0, 925, 0, 925, 1100, 0, 925, 0>>

melodyPattern ==
    <<[note |-> 3700, dur |-> 2], [note |-> 0, dur |-> 1], [note |-> 4400, dur |-> 1],
      [note |-> 3700, dur |-> 1], [note |-> 3300, dur |-> 1], [note |-> 0, dur |-> 2],
      [note |-> 2772, dur |-> 1], [note |-> 3300, dur |-> 1], [note |-> 3700, dur |-> 2],
      [note |-> 0, dur |-> 1], [note |-> 2200, dur |-> 1], [note |-> 2470, dur |-> 2],
      [note |-> 0, dur |-> 1], [note |-> 1850, dur |-> 1], [note |-> 2200, dur |-> 2],
      [note |-> 0, dur |-> 2]>>

\* noteAccum before the k-th entry of _melodyPattern, in half beats
RECURSIVE NoteAccum(_)
NoteAccum(k) == IF k = 1 THEN 0 ELSE NoteAccum(k - 1) + melodyPattern[k - 1].dur

\* _melodyBeat(beat, time): the _lead calls, at ms after time
MelodyBeat(beat) ==
    LET patternBeat == beat % PATTERN_BEATS
        elapsed == patternBeat * BEAT_DURATION
    IN  {[inst |-> "lead", at |-> (NoteAccum(k) * BEAT_DURATION) \div 2 - elapsed,
          arg |-> melodyPattern[k].note, dur |-> melodyPattern[k].dur] :
            k \in {j \in 1..Len(melodyPattern) :
                     LET noteTime == (NoteAccum(j) * BEAT_DURATION) \div 2
                     IN  /\ noteTime >= elapsed
                         /\ noteTime < elapsed + BEAT_DURATION
                         /\ melodyPattern[j].note > 0}}

\* _scheduleBeat(beatAbs, time): the instrument calls, at ms after time
ScheduleBeat(beatAbs) ==
    LET beat == beatAbs % PATTERN_BEATS
        bar == beat \div 4
        bassFreq == bassPattern[(beat % 16) + 1]
        hit(inst, at, arg) == [inst |-> inst, at |-> at, arg |-> arg, dur |-> 0]
    IN  (IF beat % 4 = 0 THEN {hit("kick", 0, 100)} ELSE {})
        \cup (IF beat % 8 = 4 THEN {hit("kick", 0, 55)} ELSE {})
        \cup (IF beat % 4 = 2 THEN {hit("snare", 0, 0)} ELSE {})
        \cup {hit("hihat", 0, 0), hit("hihat", BEAT_DURATION \div 2, 0)}
        \cup (IF bar % 2 = 0 /\ beat % 8 = 0
              THEN {hit("openhat", BEAT_DURATION * 2, 0)} ELSE {})
        \cup (IF bassFreq > 0 THEN {hit("bass", 0, bassFreq)} ELSE {})
        \cup MelodyBeat(beat)
        \cup (IF beat = 0 \/ beat = 16
              THEN {hit("pad", 0, 1850), hit("pad", 0, 2200)} ELSE {})

\* the loop of _schedule() without the lookahead
RECURSIVE ScheduleLoopNoLookahead(_)
ScheduleLoopNoLookahead(au) ==
    IF au.nextBeatTime < au.currentTime
    THEN ScheduleLoopNoLookahead(
             [au EXCEPT !.log = Append(au.log, [beat |-> au.beat, time |-> au.nextBeatTime]),
                        !.first = IF au.count = 0 THEN au.nextBeatTime ELSE au.first,
                        !.count = au.count + 1,
                        !.nextBeatTime = au.nextBeatTime + BEAT_DURATION,
                        !.beat = au.beat + 1])
    ELSE au

\* the loop of _schedule()
RECURSIVE ScheduleLoop(_)
ScheduleLoop(au) ==
    IF au.nextBeatTime < au.currentTime + LOOKAHEAD
    THEN ScheduleLoop(
             [au EXCEPT !.log = Append(au.log, [beat |-> au.beat, time |-> au.nextBeatTime]),
                        !.first = IF au.count = 0 THEN au.nextBeatTime ELSE au.first,
                        !.count = au.count + 1,
                        !.nextBeatTime = au.nextBeatTime + BEAT_DURATION,
                        !.beat = au.beat + 1])
    ELSE au

\* _schedule()
Schedule(au) ==
    IF ~au.ctx \/ ~au.started THEN au ELSE ScheduleLoop(au)

\* start() with the beat counter and the time of the first beat
BeatStart(au) ==
    IF ~au.ctx \/ au.started THEN au
    ELSE [AudioStart(au) EXCEPT !.beat = 0,
                                !.nextBeatTime = au.currentTime + START_DELAY,
                                !.count = 0, !.first = 0]

\* resume()
BeatResume(au) == IF ~au.started THEN BeatStart(au) ELSE au

\* an operation begins: its name, and an empty log
Began(au, op) == [au EXCEPT !.op = op, !.log = <<>>]

\* new SynthwaveAudio() after init() has succeeded
BeatInit ==
    /\ game = [init |-> "done", ctx |-> TRUE, started |-> FALSE, schedulerTimer |-> FALSE,
               timers |-> 0, currentTime |-> 0, nextBeatTime |-> 0, beat |-> 0,
               count |-> 0, first |-> 0, log |-> <<>>, op |-> "new"]
    /\ aiCars = <<>>
    /\ ev = <<>>
    /\ calls = 0
    /\ twin = NoTwin

\* the audio clock moves on, no further than MaxLate past a beat that is due
ClockAdvance ==
    /\ \E step \in ClockSteps :
           /\ game.currentTime + step <= MaxAudioTime
           /\ game.started => game.currentTime + step <= game.nextBeatTime + MaxLate
           /\ game' = [Began(game, "clock") EXCEPT !.currentTime = game.currentTime + step]
    /\ UNCHANGED <<aiCars, ev, calls, twin>>

\* the game calls start()
StartCall ==
    /\ game' = BeatStart(Began(game, "start"))
    /\ UNCHANGED <<aiCars, ev, calls, twin>>

\* the game calls stop()
StopCall ==
    /\ game' = AudioStop(Began(game, "stop"))
    /\ UNCHANGED <<aiCars, ev, calls, twin>>

\* the game calls resume()
ResumeCall ==
    /\ game' = BeatResume(Began(game, "resume"))
    /\ UNCHANGED <<aiCars, ev, calls, twin>>

\* the interval timer set by start() fires
TimerFires ==
    /\ game.schedulerTimer
    /\ game' = Schedule(Began(game, "schedule"))
    /\ UNCHANGED <<aiCars, ev, calls, twin>>

BeatNext == ClockAdvance \/ StartCall \/ StopCall \/ ResumeCall \/ TimerFires

BeatSpec == BeatInit /\ [][BeatNext]_vars

(***************************************************************************)
(* Properties                                                              *)
(***************************************************************************)
Agents == 1..Len(aiCars)

\* C1: every agent's lane and targetLane are in {0, 1, 2} after any sequence
\* of updates (with their regulator passes, hard resets and planner calls),
\* scrolls and regulator calls.
LaneBound ==
    \A i \in Agents : aiCars[i].lane \in Lanes /\ aiCars[i].targetLane \in Lanes

\* a hard reset and a planner's lane change have both happened to agent 1
LaneBoundWitness ==
    /\ calls = MaxCalls
    /\ ev[1].op = "update" /\ ev[1].planner # "none"
    /\ aiCars[1].targetLane # ev[1].gateTarget
    /\ aiCars[1].y < 0

\* C4: after a regulator pass on an agent with y - player.y < -80, the agent
\* has y - player.y >= 0 and is in CRUISE.
RubberBandResetAhead ==
    \A i \in Agents :
        (ev[i].op = "rubberBand" /\ ev[i].respawn) =>
            (aiCars[i].y - PLAYER_Y >= 0 /\ aiCars[i].state = "CRUISE")

\* C6: a planner called while laneChangeCooldown > 0 leaves targetLane as the
\* think cycle found it, whichever state the cycle moved to.
CooldownEnforcement ==
    \A i \in Agents :
        (ev[i].op = "update" /\ ev[i].planner # "none" /\ ev[i].cooling) =>
            aiCars[i].targetLane = ev[i].gateTarget

\* a think cycle called a planner during the cooldown, having changed state
CooldownEnforcementWitness ==
    /\ ev[1].op = "update" /\ ev[1].planner = "overtake" /\ ev[1].cooling
    /\ aiCars[1].state = "OVERTAKE"
    /\ aiCars[1].laneChangeCooldown > 0

\* C8 as claimed: across a tick, lane changes only if the tick ends with x
\* exactly at laneCenters[targetLane].
LaneChangesOnlyAtTarget ==
    \A i \in Agents :
        (ev[i].op = "update" /\ aiCars[i].lane # ev[i].startLane) =>
            aiCars[i].x = Center(aiCars[i].targetLane)

\* C8 amended: across a tick, lane changes only if the tick ends with x
\* exactly at laneCenters[targetLane] or the hard reset fired in the tick.
LaneChangesAtTargetOrReset ==
    \A i \in Agents :
        (ev[i].op = "update" /\ aiCars[i].lane # ev[i].startLane) =>
            (aiCars[i].x = Center(aiCars[i].targetLane) \/ ev[i].respawn)

\* a tick without a hard reset took an agent from between two lane centers
\* onto its target: x at the target's center and a new lane
LaneChangesWitness ==
    /\ ev[1].op = "update" /\ ~ev[1].respawn /\ ev[1].midway
    /\ aiCars[1].lane # ev[1].startLane
    /\ aiCars[1].x = Center(aiCars[1].targetLane)

\* C9: a lane counts as occupied for agent B whenever another peer within 80
\* of B has it as targetLane, wherever that peer's x is; B itself never makes
\* a lane count as occupied.
OccupancyDualCheck ==
    \A i \in Agents : \A l \in Lanes :
        /\ \A peers \in PeerRosters(aiCars[i], {5000, 7999, 8000}) :
               (\E k \in 1..Len(peers) :
                    /\ peers[k].id # aiCars[i].id
                    /\ Abs(peers[k].y - aiCars[i].y) < 8000
                    /\ peers[k].targetLane = l)
               => LaneOccupied(aiCars[i], l, peers)
        /\ ~LaneOccupied(aiCars[i], l, <<AsPeer(aiCars[i])>>)

\* after an update, lane 1 is occupied for the agent by a peer 50 behind it
\* that sits on lane 0's center and heads for lane 1
OccupancyWitness ==
    /\ ev[1].op = "update"
    /\ LaneOccupied(aiCars[1], 1,
                    <<AsPeer(aiCars[1]),
                      [id |-> 2, x |-> Center(0), y |-> aiCars[1].y + 5000,
                       targetLane |-> 1]>>)
    /\ ~LaneOccupied(aiCars[1], 2,
                     <<AsPeer(aiCars[1]),
                       [id |-> 2, x |-> Center(0), y |-> aiCars[1].y + 5000,
                        targetLane |-> 1]>>)

\* C10: a think cycle that finds both the hazard-dodge condition and the
\* catch-up condition ends in DODGE with stateTimer 1.2, not in ACCELERATE.
PriorityOrdering ==
    \A i \in Agents :
        (ev[i].op = "update" /\ ev[i].dodgeCond /\ ev[i].catchUp) =>
            (aiCars[i].state = "DODGE" /\ aiCars[i].stateTimer = 1200)

\* a think cycle found both conditions
PriorityOrderingWitness ==
    ev[1].op = "update" /\ ev[1].dodgeCond /\ ev[1].catchUp

\* C7 as claimed: whenever a planner assigns a new targetLane, the agent's
\* previous lane change has completed (lane = old targetLane, x on that
\* lane's center), for ticks of any dt >= 0.
OneLaneChangeAnyDt ==
    \A i \in Agents :
        (ev[i].op = "update" /\ aiCars[i].targetLane # ev[i].gateTarget) =>
            ev[i].settled

\* C7 for ticks of 0 <= dt <= 0.05 s, the clamp of Game._loop: whenever a
\* planner assigns a new targetLane to an agent ticked that way since its
\* construction, the agent sits in its old targetLane with x on that lane's
\* center.
OneLaneChangeInFlight ==
    \A i \in Agents :
        (ev[i].op = "update" /\ aiCars[i].targetLane # ev[i].gateTarget
            /\ ev[i].clamped) =>
            ev[i].settled

\* a planner assigned a second lane change to an agent, ticked with clamped
\* dt, whose first lane change had completed
OneLaneChangeWitness ==
    /\ ev[1].op = "update" /\ aiCars[1].targetLane # ev[1].gateTarget
    /\ ev[1].clamped /\ ev[1].settled /\ ev[1].commits = 2

\* C2: at the end of a tick no two distinct agents within 80 px of each
\* other in y have both committed, during that tick, a lane change to the
\* same targetLane.
NoSameLaneCommit ==
    \A i, j \in Agents :
        (/\ i # j
         /\ ev[i].op = "tick" /\ ev[j].op = "tick"
         /\ aiCars[i].targetLane # ev[i].gateTarget
         /\ aiCars[j].targetLane # ev[j].gateTarget
         /\ Abs(aiCars[i].y - aiCars[j].y) < 8000)
            => aiCars[i].targetLane # aiCars[j].targetLane

\* C3: within a tick the occupancy query of every agent reads the other
\* agents' x, y and targetLane as they were at tick start.
ConsistentFrame ==
    \A i \in Agents :
        (ev[i].op = "tick" /\ ev[i].queried) => ev[i].frame

\* C5: under the tick loop, with ticks of dt > 0 continuing forever, every
\* agent is again and again in the regulator's neutral band,
\* -80 <= y - player.y <= 220.
EventuallyInNeutralBand ==
    \A i \in 1..NumAI :
        []<>(aiCars[i].y - PLAYER_Y >= 0 - 8000 /\ aiCars[i].y - PLAYER_Y <= 22000)

\* C11: on a think cycle with no hazard, y - player.y >= -40,
\* |y - player.y| < 140 and the block cooldown run out, an agent of aggression
\* 0.90 not in BLOCK goes to BLOCK with stateTimer 1.4 and block cooldown 3.0,
\* and an agent of aggression 0.70 not in OVERTAKE goes to OVERTAKE with
\* stateTimer 1.0.
AggressionThresholds ==
    \A i \in Agents :
        (ev[i].op = "update" /\ ev[i].think /\ ~ev[i].hazard /\ ~ev[i].behind
            /\ ev[i].near /\ ev[i].blockReady) =>
            /\ (aiCars[i].aggression = 90 /\ ev[i].gateState # "BLOCK") =>
                   /\ aiCars[i].state = "BLOCK"
                   /\ aiCars[i].stateTimer = 1400
                   /\ aiCars[i].blockTimer = 3000
            /\ (aiCars[i].aggression = 70 /\ ev[i].gateState # "OVERTAKE") =>
                   /\ aiCars[i].state = "OVERTAKE"
                   /\ aiCars[i].stateTimer = 1000

\* such a think cycle took an agent of aggression 0.90 from CRUISE to BLOCK
AggressionThresholdsWitness ==
    /\ ev[1].op = "update" /\ ev[1].think /\ ~ev[1].hazard /\ ~ev[1].behind
    /\ ev[1].near /\ ev[1].blockReady /\ ev[1].gateState = "CRUISE"
    /\ aiCars[1].aggression = 90 /\ aiCars[1].state = "BLOCK"

\* C12 as claimed: an update that finds a non-CRUISE state with its timer
\* elapsed (DODGE at 1.2 s advanced by dt = 1.3 s), no hazard, the agent not
\* more than 40 behind the player and not within 140 of the player, leaves
\* the agent in CRUISE.
StateExpiryEveryUpdate ==
    \A i \in Agents :
        (ev[i].op = "update" /\ ev[i].gateState # "CRUISE" /\ ev[i].expired
            /\ ~ev[i].hazard /\ ~ev[i].behind /\ ~ev[i].near) =>
            aiCars[i].state = "CRUISE"

\* C12 for updates that run a think cycle: such an update leaves the agent in
\* CRUISE.
StateExpiry ==
    \A i \in Agents :
        (ev[i].op = "update" /\ ev[i].think
            /\ ev[i].gateState # "CRUISE" /\ ev[i].expired
            /\ ~ev[i].hazard /\ ~ev[i].behind /\ ~ev[i].near) =>
            aiCars[i].state = "CRUISE"

\* a think cycle found DODGE elapsed far ahead of the player, with no hazard,
\* and the agent is in CRUISE
StateExpiryWitness ==
    /\ ev[1].op = "update" /\ ev[1].think
    /\ ev[1].gateState = "DODGE" /\ ev[1].expired
    /\ ~ev[1].hazard /\ ~ev[1].behind /\ ~ev[1].near
    /\ aiCars[1].state = "CRUISE"

\* C14: the number of aggressive agents is the same after every tick as at
\* game start: a tick, with its hard resets, scrolls and overtake check,
\* adds none and removes none
PopulationConstant == Len(aiCars) = NumAI

\* a tick has run in which an agent was hard-reset and scrolled, and the
\* roster still holds every agent
PopulationConstantWitness ==
    /\ calls > 0
    /\ Len(aiCars) = NumAI
    /\ \E i \in Agents : ev[i].op = "tick" /\ ev[i].respawn /\ aiCars[i].y > PLAYER_Y - 74000

\* C15: when the dodge, overtake or block planner of a think cycle finds no
\* qualifying lane, the think cycle leaves lane, targetLane and
\* laneChangeCooldown as they were
NoViableLaneNoOp == \A i \in Agents : ev[i].noLane => ev[i].kept

\* a dodge has searched in vain, every lane hazard-blocked or occupied by a
\* peer, and the think cycle kept lane, targetLane and laneChangeCooldown
NoViableLaneWitness ==
    \E i \in Agents : ev[i].noLane /\ ev[i].kept /\ ev[i].planner = "dodge"

\* C16: whenever TrafficCar.update is called in two games that differ only in
\* the player, with the same draws and the same traffic roster, it leaves
\* the car with the same _targetX, x and _laneChangeTimer in both
TrafficIndependence ==
    \A n \in DOMAIN twin.log : twin.log[n].sameRoster => twin.log[n].sameLateral

\* a car retargeted in two games whose players differ, one of them beside the
\* car, and decided and moved the same in both
TrafficIndependenceWitness ==
    \E n \in DOMAIN twin.log :
        /\ twin.log[n].sameRoster /\ twin.log[n].sameLateral
        /\ twin.log[n].retargets /\ twin.log[n].differ
        /\ twin.A.cars # <<>>
        /\ \E k \in 1..Len(twin.A.cars) : Abs(twin.A.cars[k].y - PLAYER_Y) < 9000

\* C17: no agent has a lane or targetLane outside {0, 1, 2}, and no update
\* leaves a countdown larger than it found it, whatever lane the constructor
\* and whatever dt update() was passed
BreachesRejected ==
    \A i \in Agents :
        /\ aiCars[i].lane \in Lanes
        /\ aiCars[i].targetLane \in Lanes
        /\ ~ev[i].grew

\* C18: every frame that advances the agents is a frame of a PLAYING game,
\* advances each agent once, and passes 0 <= dt <= 0.05 and a gameSpeed in
\* 200..650 that is not below the gameSpeed of the tick before it in the
\* same game
TickInputsBounded ==
    game.advanced > 0 =>
        /\ game.frameState = "PLAYING"
        /\ game.advanced = Len(aiCars)
        /\ \A i \in Agents : ev[i].op = "tick"
        /\ 0 <= game.dt /\ game.dt <= FRAME_DT_MAX
        /\ BASE_SPEED <= game.speed /\ game.speed <= MAX_SPEED
        /\ game.prevSpeed <= game.speed

\* after a pause of 5 s a frame advances the agents with dt clamped to 0.05,
\* in a game whose gameSpeed has reached 650
TickInputsBoundedWitness ==
    /\ game.advanced = NumAI
    /\ game.elapsed = 5000
    /\ game.dt = FRAME_DT_MAX
    /\ game.speed = MAX_SPEED
    /\ game.prevSpeed < MAX_SPEED

\* C19 as claimed: lane is assigned by the snap of _applyMovement alone: not
\* by scroll, not by the regulator or its hard reset, not by the think cycle
\* and its planners
LaneOnlyByCommit ==
    \A i \in Agents :
        /\ ev[i].op \in {"scroll", "rubberBand"} => aiCars[i].lane = ev[i].startLane
        /\ ev[i].op = "update" =>
               /\ ev[i].laneAtGate = ev[i].startLane
               /\ ev[i].laneThought = ev[i].laneAtGate
               /\ aiCars[i].lane # ev[i].laneThought =>
                      /\ aiCars[i].lane = aiCars[i].targetLane
                      /\ aiCars[i].x = Center(aiCars[i].targetLane)

\* C19 amended: lane is assigned by the snap of _applyMovement and by the hard
\* reset alone: not by scroll, not by the regulator when it does not reset,
\* not by the think cycle and its planners
LaneOnlyByCommitOrReset ==
    \A i \in Agents :
        /\ ev[i].op = "scroll" => aiCars[i].lane = ev[i].startLane
        /\ (ev[i].op = "rubberBand" /\ ~ev[i].respawn) => aiCars[i].lane = ev[i].startLane
        /\ ev[i].op = "update" =>
               /\ ~ev[i].respawn => ev[i].laneAtGate = ev[i].startLane
               /\ ev[i].laneThought = ev[i].laneAtGate
               /\ aiCars[i].lane # ev[i].laneThought =>
                      /\ aiCars[i].lane = aiCars[i].targetLane
                      /\ aiCars[i].x = Center(aiCars[i].targetLane)

\* the regulator, called on its own, hard-reset the agent into another lane
LaneOnlyByCommitOrResetWitness ==
    /\ ev[1].op = "rubberBand" /\ ev[1].respawn
    /\ aiCars[1].lane # ev[1].startLane

\* C20: after a think cycle whose dodge found no qualifying lane, the next
\* update that runs a think cycle with a hazard in the scan window attempts
\* the dodge again
DodgeRetry ==
    \A i \in Agents :
        (ev[i].op = "update" /\ ev[i].planner = "dodge" /\ ev[i].noLane) =>
            \A dt \in DtSet, gameSpeed \in GameSpeeds :
            \A draw \in (IF TooFarBehind(aiCars[i], PlayerAt(1)) THEN Draws ELSE {NoDraw}) :
                LET b == BeforeGate(aiCars[i], dt, gameSpeed, PlayerAt(1), draw) IN
                \A obstacles \in ObstacleSets(b) :
                    (b.reactionTimer <= 0 /\ ScanObstacle(b, obstacles)) =>
                        Planner(b, PlayerAt(1), obstacles) = "dodge"

\* the lanes other than the agent's own that _dodge would accept
OtherSafeLanes(b, obstacles, peers) == SafeLanes(b, obstacles, peers) \ {b.lane}

\* C21: whenever an update runs a think cycle whose hazard dodge fires with
\* the cooldown elapsed and some lane other than the agent's own is neither
\* occupied nor hazard-blocked, targetLane becomes the nearest such lane,
\* the lower index on a tie
DodgeLaneSelection ==
    \A i \in Agents : \A dt \in DtSet, gameSpeed \in GameSpeeds :
    \A draw \in (IF TooFarBehind(aiCars[i], PlayerAt(1)) THEN Draws ELSE {NoDraw}) :
        LET b == BeforeGate(aiCars[i], dt, gameSpeed, PlayerAt(1), draw) IN
        \A obstacles \in ObstacleSets(b), peers \in PeerRosters(b, {5000}) :
            (/\ b.reactionTimer <= 0
             /\ DodgeCondition(b, obstacles)
             /\ b.laneChangeCooldown <= 0
             /\ OtherSafeLanes(b, obstacles, peers) # {}) =>
                Think(b, PlayerAt(1), obstacles, peers).targetLane
                    = NearestLowFirst(OtherSafeLanes(b, obstacles, peers), b.lane)

\* C22: for every agent and every obstacle list, the scan that triggers DODGE
\* is true exactly when the hazard test of the dodge planner (distance to the
\* lane center below width*0.5 + o.width*0.4, and the same vertical window)
\* is true of the agent's current lane
ScannerAgrees ==
    \A i \in Agents : \A obstacles \in ObstacleSets(aiCars[i]) :
        ScanObstacle(aiCars[i], obstacles) <=> HasObstacle(aiCars[i], aiCars[i].lane, obstacles)

\* C23: every update, with or without a think cycle, leaves the velocity
\* multiplier at 0.82 if it found y - player.y > 220 and at 1.0 otherwise,
\* a hard reset included
RegulatorEveryUpdate ==
    \A i \in Agents :
        ev[i].op = "update" =>
            aiCars[i].rubberBandMult = IF ev[i].ahead THEN 8200 ELSE 10000

\* an update whose reaction gate was closed found the agent more than 220
\* ahead and left the multiplier at 0.82
RegulatorEveryUpdateWitness ==
    /\ ev[1].op = "update" /\ ~ev[1].think /\ ev[1].ahead
    /\ aiCars[1].rubberBandMult = 8200

\* C24: an update that runs a think cycle leaves reactionTimer at the agent's
\* reactionTime, and the simulated time between two successive think cycles
\* is at least the reactionTime the earlier one installed
ThinkGating ==
    /\ ev[1].think => aiCars[1].reactionTimer = aiCars[1].reactionTime
    /\ game.cycles >= 2 => game.gap >= game.prevReaction

\* a think cycle that installed a positive reactionTime was followed, after
\* updates with a closed gate, by the next think cycle
ThinkGatingWitness ==
    /\ ev[1].think /\ game.cycles >= 2
    /\ game.prevReaction > 0
    /\ game.gap >= game.prevReaction
    /\ game.gap > FRAME_DT_MAX

\* C25: an agent is in BLOCK after an update that found it in another state
\* only if that update ran a think cycle that found the block cooldown <= 0
\* and took the BLOCK branch, and that branch leaves the cooldown at 3.0
BlockGatedByCooldown ==
    \A i \in Agents :
        /\ (ev[i].op = "update" /\ aiCars[i].state = "BLOCK" /\ ev[i].gateState # "BLOCK")
               => ev[i].planner = "block"
        /\ ev[i].planner = "block" =>
               /\ ev[i].think /\ ev[i].blockReady /\ ev[i].gateState # "BLOCK"
               /\ aiCars[i].state = "BLOCK"
               /\ aiCars[i].blockTimer = 3000

\* the agent has entered BLOCK a second time: the cooldown set to 3.0 by the
\* first entry had run out
BlockGatedByCooldownWitness ==
    /\ game.entries = 2
    /\ ev[1].planner = "block" /\ ev[1].blockReady
    /\ aiCars[1].blockTimer = 3000

\* C26: whenever an update runs a think cycle that finds the block cooldown
\* positive, the cycle leaves it smaller by reactionTime + 0.001, whichever
\* branch it takes
BlockCooldownProgresses ==
    \A i \in Agents : \A dt \in BlockDts, gameSpeed \in BlockSpeeds, pl \in Lanes :
    \A draw \in (IF TooFarBehind(aiCars[i], PlayerAt(pl)) THEN Draws ELSE {NoDraw}) :
        LET b == BeforeGate(aiCars[i], dt, gameSpeed, PlayerAt(pl), draw) IN
        (b.reactionTimer <= 0 /\ b.blockTimer > 0) =>
            Think(b, PlayerAt(pl), <<>>, <<AsPeer(b)>>).blockTimer
                = b.blockTimer - (b.reactionTime + 1)

\* C27: over any sequence of updates an agent of aggression <= 0.65 is never
\* in OVERTAKE or BLOCK, and an agent of aggression <= 0.82 is never in BLOCK
\* and never has its block cooldown started
AggressionGovernsReach ==
    \A i \in Agents :
        /\ aiCars[i].aggression <= 65 => aiCars[i].state \notin {"OVERTAKE", "BLOCK"}
        /\ aiCars[i].aggression <= 82 =>
               aiCars[i].state # "BLOCK" /\ aiCars[i].blockTimer = 0

\* a think cycle near the player, with no hazard, no catch-up and the block
\* cooldown at 0, took an agent of aggression 0.82 to OVERTAKE, not to BLOCK
AggressionGovernsReachWitness ==
    /\ ev[1].op = "update" /\ ev[1].think /\ ~ev[1].hazard /\ ~ev[1].behind
    /\ ev[1].near /\ ev[1].blockReady
    /\ aiCars[1].aggression = 82 /\ aiCars[1].state = "OVERTAKE"

\* C28: aggression and reactionTime keep the values drawn at construction
\* through every later operation
PersonalityImmutable ==
    /\ aiCars[1].aggression = game.drawn.aggression
    /\ aiCars[1].reactionTime = game.drawn.reactionTime

\* C29: at base game speed (gameSpeed 200) an update whose think cycle
\* commits a lane change installs the nominal cooldown of 0.75 s
InstalledCooldownNominal ==
    \A i \in Agents :
        (ev[i].op = "update" /\ aiCars[i].targetLane # ev[i].gateTarget) =>
            aiCars[i].laneChangeCooldown = INITIAL_LANE_CHANGE_COOLDOWN

\* C30: when a think cycle fires OVERTAKE with the lane-change cooldown
\* elapsed and some lane is neither the player's nor occupied by a peer, the
\* agent's targetLane becomes the qualifying lane nearest to its current lane,
\* the higher index when two are equally near (lane 2 from lane 1)
OvertakeLaneSelection ==
    LET qualifying == {l \in Lanes : l # game.playerLane /\ l \notin game.occupied}
        lane == ev[1].laneAtGate
    IN  (ev[1].op = "update" /\ ev[1].planner = "overtake" /\ ~ev[1].cooling
            /\ qualifying # {}) =>
            /\ aiCars[1].targetLane \in qualifying
            /\ \A m \in qualifying :
                   \/ Abs(aiCars[1].targetLane - lane) < Abs(m - lane)
                   \/ /\ Abs(aiCars[1].targetLane - lane) = Abs(m - lane)
                      /\ aiCars[1].targetLane >= m

\* an agent in lane 1 beside the player in lane 1, lanes 0 and 2 both free of
\* peers, fired OVERTAKE with the cooldown elapsed and now targets lane 2
OvertakeLaneSelectionWitness ==
    /\ ev[1].op = "update" /\ ev[1].planner = "overtake" /\ ~ev[1].cooling
    /\ ev[1].laneAtGate = 1 /\ game.playerLane = 1
    /\ game.occupied \cap {0, 2} = {}
    /\ aiCars[1].targetLane = 2

\* the values of dt the lateral integrator is applied with
LateralDts == {0, 10, FRAME_DT_MAX, 200, 300}

\* one _applyMovement from the present state moves x toward the target
\* lane's center by at most LATERAL_SPEED * dt, does not pass it, leaves
\* targetLane alone and sets lane = targetLane when x arrives
LateralStepBounded ==
    \A dt \in LateralDts, gameSpeed \in TransitSpeeds :
        LET a == aiCars[1]
            c == ApplyMovement(a, dt, gameSpeed)
            t == Center(a.targetLane)
        IN  /\ Abs(c.x - a.x) <= LateralStep(dt)
            /\ Abs(t - c.x) <= Abs(t - a.x)
            /\ Sign(t - c.x) \in {0, Sign(t - a.x)}
            /\ c.targetLane = a.targetLane
            /\ c.x = t => c.lane = a.targetLane
            /\ c.x # t => c.lane = a.lane

\* C31: in each tick x moves toward laneCenters[targetLane] by at most
\* LATERAL_SPEED * dt and never passes it; while targetLane stays l and ticks
\* of dt > 0 keep coming, x reaches the center of l exactly, with lane = l
LateralConverges ==
    /\ []LateralStepBounded
    /\ \A l \in Lanes :
           (aiCars[1].targetLane = l) ~>
               \/ aiCars[1].x = Center(l) /\ aiCars[1].lane = l
               \/ aiCars[1].targetLane # l

\* an update found the agent between two lane centers and brought it onto
\* the center of its target lane, committing lane = targetLane
LateralConvergesWitness ==
    /\ ev[1].op = "update" /\ ev[1].midway
    /\ aiCars[1].x = Center(aiCars[1].targetLane)
    /\ aiCars[1].lane = aiCars[1].targetLane
    /\ aiCars[1].lane # ev[1].startLane

\* the lanes in which no other car of the roster within 90 px vertically of
\* tc sits or is heading
TrafficQualifying(tc, roster) ==
    {l \in Lanes :
        \A k \in 1..Len(roster) :
            (roster[k].id # tc.id /\ Abs(roster[k].y - tc.y) < 9000) =>
                /\ Abs(roster[k].x - Center(l)) >= 4000
                /\ Abs(roster[k].targetX - Center(l)) >= 4000}

\* C32: whatever tick comes next, a traffic car whose retarget timer fires in
\* it gets as target the center of a lane that no other traffic car within
\* 90 px vertically sits in or heads for at that moment, or keeps its target
\* when there is no such lane; targets are always lane centers
TrafficRetargetSafe ==
    /\ \A n \in 1..Len(twin.A.cars) :
           \E l \in Lanes : twin.A.cars[n].targetX = Center(l)
    /\ \A dt \in TrafficDts, gameSpeed \in TrafficSpeeds :
       \A draws \in [1..Len(twin.A.cars) -> TrafficDraws] :
       \A n \in 1..Len(twin.A.cars) :
           LET r  == TrafficPrefix(twin.A, n - 1, dt, RunScroll(twin.A, dt, gameSpeed),
                                   draws)
               tc == r.cars[n]
               u  == TrafficCarUpdate(tc, dt, TrafficPeers(r), draws[n])
               q  == TrafficQualifying(tc, r.cars)
           IN  IF tc.laneChangeTimer - dt <= 0
               THEN IF q = {} THEN u.targetX = tc.targetX
                    ELSE \E l \in q : u.targetX = Center(l)
               ELSE u.targetX = tc.targetX

\* a car's timer fired in the last tick beside another car; it now heads for
\* a lane away from its own that the other car neither sits in nor heads for
TrafficRetargetSafeWitness ==
    /\ Len(twin.A.cars) = 2
    /\ \E n \in DOMAIN twin.log : \E k \in 1..2 :
           /\ k # n
           /\ twin.log[n].retargets
           /\ twin.A.cars[n].targetX # twin.A.cars[n].x
           /\ Abs(twin.A.cars[k].y - twin.A.cars[n].y) < 9000
           /\ Abs(twin.A.cars[k].x - twin.A.cars[n].targetX) >= 4000
           /\ Abs(twin.A.cars[k].targetX - twin.A.cars[n].targetX) >= 4000

\* traffic car id is in this.trafficCars
InRoster(id) == \E n \in 1..Len(game.cars) : game.cars[n].id = id

\* the roster holds only cars above the bottom bound, and the cars the last
\* tick dropped had reached it
BelowBoundDropped ==
    /\ \A n \in 1..Len(game.cars) : game.cars[n].y < CANVAS_H + 10000
    /\ \A g \in game.gone : g.y >= CANVAS_H + 10000 /\ ~InRoster(g.id)

\* a car that stays in the roster over a tick does not move up
TrafficNeverRises ==
    \A n \in 1..Len(game.cars) : \A k \in 1..Len(game.cars') :
        game.cars'[k].id = game.cars[n].id => game.cars'[k].y >= game.cars[n].y

\* C33: a traffic car's y never decreases; a car is in the roster only while
\* y < CANVAS_H + 100 and is dropped in the tick in which it reaches that
\* bound; while ticks of dt > 0 keep coming in PLAYING every car of the
\* roster is eventually dropped
TrafficLifecycle ==
    /\ []BelowBoundDropped
    /\ [][TrafficNeverRises]_vars
    /\ \A id \in 1..2 : InRoster(id) ~> ~InRoster(id)

\* the last tick dropped the truck at the bottom bound; the sedan is still
\* on the road
TrafficLifecycleWitness ==
    /\ \E g \in game.gone : g.id = 1 /\ g.y >= CANVAS_H + 10000
    /\ InRoster(2) /\ ~InRoster(1)

BlockDisplacedInTime ==
    (ev[1].op = "update" /\ ev[1].think /\ ev[1].gateState = "BLOCK"
        /\ ~ev[1].hazard /\ ~ev[1].behind /\ ev[1].near
        /\ aiCars[1].aggression > 82) =>
        /\ aiCars[1].state = "OVERTAKE"
        /\ ~ev[1].expired

\* C35: such a think cycle takes the agent to OVERTAKE with timer 1.0 s,
\* whether or not the BLOCK timer has elapsed; when no update so far had a dt
\* above 0.05 the cycle finds the 1.4 s BLOCK timer not yet elapsed
BlockDisplaced ==
    (ev[1].op = "update" /\ ev[1].think /\ ev[1].gateState = "BLOCK"
        /\ ~ev[1].hazard /\ ~ev[1].behind /\ ev[1].near
        /\ aiCars[1].aggression > 82) =>
        /\ aiCars[1].state = "OVERTAKE"
        /\ aiCars[1].stateTimer = 1000
        /\ ev[1].clamped => ~ev[1].expired

\* with every dt at 0.05, the think cycle after the one that entered BLOCK
\* took the agent to OVERTAKE, the BLOCK timer not elapsed and the block
\* cooldown still at 3.0
BlockDisplacedWitness ==
    /\ ev[1].op = "update" /\ ev[1].think /\ ev[1].gateState = "BLOCK"
    /\ ~ev[1].hazard /\ ~ev[1].behind /\ ev[1].near
    /\ ev[1].clamped /\ ~ev[1].expired
    /\ aiCars[1].aggression = 90 /\ aiCars[1].state = "OVERTAKE"
    /\ aiCars[1].blockTimer = 3000


(***************************************************************************)
(* C36: a player's lives stay within 0..PLAYER_LIVES, only a frame changes *)
(* them and then by at most one downwards, the game is PLAYING only with   *)
(* at least one life, and the frame that takes the last life leaves the    *)
(* game in GAME_OVER, so that no _update runs on a player without lives.   *)
(***************************************************************************)
LivesInvariant ==
    /\ game.player.lives \in 0..PLAYER_LIVES
    /\ ~game.last.newPlayer =>
           /\ game.player.lives \in {game.last.lives, game.last.lives - 1}
           /\ game.last.event # "frame" => game.player.lives = game.last.lives
    /\ Playing(game) => game.player.lives >= 1
    /\ game.player.lives = 0 => game.state \in {"GAME_OVER", "MENU"}
    /\ (game.last.event = "frame" /\ game.last.lives = 1 /\ game.player.lives = 0)
           => game.state = "GAME_OVER"
    /\ game.last.updated => game.last.from = "PLAYING" /\ game.last.lives >= 1

LivesInvariantWitness ==
    /\ game.state = "GAME_OVER"
    /\ game.player.lives = 0
    /\ game.last.event = "frame"
    /\ game.last.updated
    /\ game.last.lives = 1



\* the state changes of the Game
GameTransitions ==
    {<<"LOADING", "MENU">>, <<"MENU", "PLAYING">>, <<"PLAYING", "PAUSED">>,
     <<"PAUSED", "PLAYING">>, <<"PLAYING", "GAME_OVER">>, <<"GAME_OVER", "MENU">>}

\* an event leaves the state alone or makes one of the six changes
GameStepAllowed ==
    game'.state = game.state \/ <<game.state, game'.state>> \in GameTransitions

\* _update has run only in a frame that found the game PLAYING
UpdateOnlyPlaying ==
    game.last.updated => game.last.event = "frame" /\ game.last.from = "PLAYING"

(***************************************************************************)
(* C37: whatever the order of SDK completion, key presses, taps and        *)
(* frames, the state changes only LOADING->MENU, MENU->PLAYING,            *)
(* PLAYING->PAUSED, PAUSED->PLAYING, PLAYING->GAME_OVER or GAME_OVER->MENU, *)
(* and _update runs only in PLAYING.                                       *)
(***************************************************************************)
GameStateMachine == [][GameStepAllowed]_vars /\ []UpdateOnlyPlaying

GameStateMachineWitness ==
    /\ game.state = "MENU"
    /\ game.last.from = "GAME_OVER"
    /\ game.player.lives = 0



\* the scheduler is running: _started with exactly one live interval timer
SchedulerRunning(au) == au.started /\ au.timers = 1

\* the transport after two calls in a row of start() and resume()
RepeatedCalls(au) ==
    {AudioStart(AudioStart(au)), AudioResume(AudioStart(au)),
     AudioStart(AudioResume(au)), AudioResume(AudioResume(au))}

(***************************************************************************)
(* C38: once audio.init() has succeeded, after every event the scheduler   *)
(* is running exactly when the game is PLAYING; _started holds exactly     *)
(* when _schedulerTimer is set, and no second interval timer ever exists.  *)
(***************************************************************************)
SoundtrackFollowsState ==
    /\ game.audio.init = "done" => (SchedulerRunning(game.audio) <=> Playing(game))
    /\ game.audio.started <=> game.audio.schedulerTimer
    /\ game.audio.timers = (IF game.audio.schedulerTimer THEN 1 ELSE 0)
    /\ \A au \in RepeatedCalls(game.audio) :
           au.timers = (IF au.schedulerTimer THEN 1 ELSE 0)

SoundtrackFollowsStateWitness ==
    /\ Playing(game)
    /\ game.last.from = "PAUSED"
    /\ game.audio.init = "done"
    /\ SchedulerRunning(game.audio)
    /\ game.audio.schedulerTimer



(***************************************************************************)
(* C39: at every call of savePoints (auto-save, game over, page unload)    *)
(* the buffer _sdkPoints is 0 and every point added to score in this game  *)
(* has been given to sdk.addPoints; _startGame never overwrites a buffer   *)
(* that is not 0.                                                          *)
(***************************************************************************)
NoPointsLost ==
    /\ game.last.by # "none" => game.last.pending = 0 /\ game.last.unsent = 0
    /\ game.discarded = 0

NoPointsLostWitness ==
    /\ game.last.by = "auto"
    /\ game.score >= 15
    /\ game.passed = game.score
    /\ game.autoSaveTimer = 0



\* the calls of the latest _schedule() continue the sequence 0, 1, 2, ... of
\* this start(), one beatDuration apart
LogGapFree ==
    \A k \in 1..Len(game.log) :
        /\ game.log[k].beat = game.count - Len(game.log) + k - 1
        /\ game.log[k].time = game.first + game.log[k].beat * BEAT_DURATION

\* the instruments of a logged beat are those of the beat 32 later
LogPeriodic ==
    \A k \in 1..Len(game.log) :
        ScheduleBeat(game.log[k].beat) = ScheduleBeat(game.log[k].beat + PATTERN_BEATS)

(***************************************************************************)
(* C40: after each start() the _schedule calls schedule the beats 0, 1, 2, *)
(* ... once each and in order, one beatDuration apart; when _schedule      *)
(* returns, the next beat's time is at least currentTime + 0.12; and beat  *)
(* b has the instruments of beat b + 32.                                   *)
(***************************************************************************)
BeatsGapFree ==
    /\ LogGapFree
    /\ LogPeriodic
    /\ game.beat = game.count
    /\ game.started => game.nextBeatTime =
                           (IF game.count = 0 THEN game.nextBeatTime ELSE game.first)
                           + (IF game.count = 0 THEN 0 ELSE game.count * BEAT_DURATION)
    /\ game.op = "schedule" => game.nextBeatTime >= game.currentTime + LOOKAHEAD

BeatsGapFreeWitness ==
    /\ game.op = "schedule"
    /\ Len(game.log) = 2
    /\ game.log[1].beat = PATTERN_BEATS - 1
    /\ game.log[2].beat = PATTERN_BEATS
    /\ game.first > START_DELAY


====
